---- MODULE Spec2Model ----
(***************************************************************************)
(* State-machine model of qsdsan/_process.py: Process, Processes and        *)
(* CompiledProcesses with the class-level compilation cache; of the PM2     *)
(* process model of qsdsan/processes/_pm2.py; and of the impact items of    *)
(* qsdsan/_impact_item.py.                                                  *)
(*                                                                          *)
(* Python objects are heap cells: a Process object is an index of `procs`,  *)
(* a Processes / CompiledProcesses object an index of `colls`.  Object      *)
(* identity is the index, which is what the cache (keyed by a tuple of      *)
(* Process objects, hashed by identity) relies on.                          *)
(*                                                                          *)
(* Numbers.  A coefficient is a record [n, d]: the rational n/d when d > 0, *)
(* and the IEEE specials when d = 0 (n = 1: +inf, n = -1: -inf, n = 0: nan) *)
(* that numpy produces on division by zero.  A rate expression is the       *)
(* monomial k * sym, a record [sym, k] with k a coefficient; sympy keeps    *)
(* such an expression in canonical form, so equal monomials are equal       *)
(* records.                                                                 *)
(***************************************************************************)
EXTENDS Integers, Sequences, FiniteSets, TLC

VARIABLES procs, colls, cache, ret, threads, pm2, items, registry, streams

vars == <<procs, colls, cache, ret, threads, pm2, items, registry, streams>>

\* what a call on a Process or a collection leaves alone: the constructions
\* in flight in other threads, the PM2 model, the impact items and the streams
elsewhere == <<threads, pm2, items, registry, streams>>

(***************************************************************************)
(* Bounds of the model.                                                     *)
(***************************************************************************)
\* number of Process objects on the heap
NumProcs == 3
\* number of Processes / CompiledProcesses objects the heap can hold
MaxColls == 2
\* longest tuple of processes handed to a constructor, extend or indices
MaxTuple == 2
\* largest magnitude of a stoichiometric coefficient given in a reaction
MaxCoeff == 2
\* number of threads constructing CompiledProcesses at the same time
NumThreads == 2
\* most keyword arguments in one set_parameters call
MaxKwargs == 2
\* number of impact items the heap can hold
MaxItems == 3
\* number of streams
NumStreams == 2

(***************************************************************************)
(* Scalar arithmetic (numpy float64 / sympy numbers).                       *)
(***************************************************************************)
AbsInt(i) == IF i < 0 THEN -i ELSE i

Sgn(i) == IF i < 0 THEN -1 ELSE IF i > 0 THEN 1 ELSE 0

RECURSIVE GCD(_, _)
GCD(a, b) == IF b = 0 THEN a ELSE GCD(b, a % b)

\* the rational n/d, d > 0, in lowest terms
Norm(n, d) == LET g == GCD(AbsInt(n), d) IN [n |-> n \div g, d |-> d \div g]

NaN == [n |-> 0, d |-> 0]

Inf(s) == [n |-> s, d |-> 0]

Zero == [n |-> 0, d |-> 1]

One == [n |-> 1, d |-> 1]

Num(i) == [n |-> i, d |-> 1]

Fin(x) == x.d > 0

IsZero(x) == x.d > 0 /\ x.n = 0

\* unary minus (-nan is nan)
Neg(x) == [n |-> -x.n, d |-> x.d]

\* abs()
AbsS(x) == [n |-> AbsInt(x.n), d |-> x.d]

\* x / y.  Every divisor in the program is an abs(), so a zero divisor is +0.
Div(x, y) ==
    IF x = NaN \/ y = NaN THEN NaN
    ELSE IF ~Fin(x) THEN (IF ~Fin(y) THEN NaN
                          ELSE Inf(x.n * (IF y.n < 0 THEN -1 ELSE 1)))
    ELSE IF ~Fin(y) THEN Zero
    ELSE IF y.n = 0 THEN (IF x.n = 0 THEN NaN ELSE Inf(Sgn(x.n)))
    ELSE Norm(x.n * y.d * Sgn(y.n), x.d * AbsInt(y.n))

\* x * y
Mul(x, y) ==
    IF x = NaN \/ y = NaN THEN NaN
    ELSE IF ~Fin(x) \/ ~Fin(y)
         THEN (IF IsZero(x) \/ IsZero(y) THEN NaN ELSE Inf(Sgn(x.n) * Sgn(y.n)))
    ELSE Norm(x.n * y.n, x.d * y.d)

\* x + y
Add(x, y) ==
    IF x = NaN \/ y = NaN THEN NaN
    ELSE IF ~Fin(x) /\ ~Fin(y) THEN (IF x.n = y.n THEN x ELSE NaN)
    ELSE IF ~Fin(x) THEN x
    ELSE IF ~Fin(y) THEN y
    ELSE Norm(x.n * y.d + y.n * x.d, x.d * y.d)

(***************************************************************************)
(* Names.                                                                   *)
(***************************************************************************)
\* component IDs of the component registries
CompIDs == {"A", "B", "C"}

\* the registry each Process object is parsed against (by object index)
Registries == << <<"A", "B">>, <<"B", "C">>, <<"C", "A">> >>

\* process IDs; objects 1 and 3 carry the same ID
ProcIDs == <<"p1", "p2">>

\* symbols the rate equations are written in
RateSyms == <<"r1", "r2">>

ProcObjs == 1..NumProcs

\* a value that is not a Process (a string, a number, ...)
NotAProcess == 0

IndexOf(seq, x) == CHOOSE i \in 1..Len(seq) : seq[i] = x

InSeq(seq, x) == \E i \in 1..Len(seq) : seq[i] = x


Range(seq) == {seq[i] : i \in 1..Len(seq)}

(***************************************************************************)
(* Process                                                                  *)
(***************************************************************************)
\* the coefficient vectors a reaction string can give Process object i: the
\* reference component (first of the registry) gets -1 or +1, the other
\* component any coefficient of the reaction.  Only object 1 is given every
\* reaction (all of them when `every`, else the one reaction -1, MaxCoeff);
\* the others get one each.
Reactions(i, every) ==
    IF i = 1
    THEN {<<Num(s), Num(v)>> : s \in IF every THEN {-1, 1} ELSE {-1},
                                v \in (IF every THEN -MaxCoeff ELSE MaxCoeff)..MaxCoeff}
    ELSE IF i % 2 = 0 THEN {<<Num(1), Num(-MaxCoeff)>>}
    ELSE {<<Num(-1), Num(0)>>}

\* a reaction as written: its terms, component ID -> literal coefficient
Terms(reaction, cmps) ==
    [c \in {cmps[j] : j \in {k \in 1..Len(cmps) : ~IsZero(reaction[k])}} |->
        reaction[IndexOf(cmps, c)]]

\* get_stoichiometric_coeff for a reaction without unknown coefficients: the
\* literal coefficient at each component of the reaction, zero at every other
\* component of the registry
get_stoichiometric_coeff(terms, cmps) ==
    [j \in 1..Len(cmps) |-> IF cmps[j] \in DOMAIN terms THEN terms[cmps[j]] ELSE Zero]

\* numpy array (all coefficients numeric) or Python list
Kinds(i, every) ==
    IF i = 1 THEN (IF every THEN {"array", "list"} ELSE {"array"})
    ELSE IF i % 2 = 0 THEN {"array"} ELSE {"list"}

\* Process.__init__; the rate equation parsed is r1 for the objects of odd
\* index and MaxCoeff*r2 for those of even index
NewProcess(i, reaction, kind) ==
    [ID            |-> ProcIDs[((i - 1) % Len(ProcIDs)) + 1],
     components    |-> Registries[((i - 1) % Len(Registries)) + 1],
     ref_component |-> Registries[((i - 1) % Len(Registries)) + 1][1],
     conserved_for |-> <<"COD", "N", "P", "charge">>,
     parameters    |-> IF i % 2 = 1 THEN {"mu"} ELSE {"K"},
     stoichiometry |-> reaction,
     kind          |-> kind,
     rate_equation |-> [sym |-> RateSyms[((i - 1) % Len(RateSyms)) + 1],
                        k   |-> IF i % 2 = 0 THEN Num(MaxCoeff) ELSE One]]

\* -expr
NegRate(r) == [r EXCEPT !.k = Neg(@)]

\* expr * factor
ScaleRate(r, factor) == [r EXCEPT !.k = Mul(@, factor)]

\* a reverse() that negates the coefficients only
reverse_keeps_rate(P) ==
    [P EXCEPT !.stoichiometry = [i \in DOMAIN @ |-> Neg(@[i])]]

\* Process.reverse
reverse(P) ==
    [P EXCEPT !.stoichiometry = [i \in DOMAIN @ |-> Neg(@[i])],
              !.rate_equation = NegRate(@)]

\* Process.stoichiometry (property): component ID -> nonzero coefficient
stoichiometry(P) ==
    LET nz == {i \in 1..Len(P.components) : ~IsZero(P.stoichiometry[i])}
    IN  [c \in {P.components[i] : i \in nz} |->
            P.stoichiometry[IndexOf(P.components, c)]]

\* Process._normalize_stoichiometry: [stoichiometry, err]
_normalize_stoichiometry(P, new_ref) ==
    IF ~InSeq(P.components, new_ref)
    THEN [stoichiometry |-> P.stoichiometry, err |-> "KeyError"]
    ELSE LET factor == AbsS(P.stoichiometry[IndexOf(P.components, new_ref)])
         IN  IF P.kind = "list" /\ IsZero(factor)
             THEN [stoichiometry |-> P.stoichiometry, err |-> "ZeroDivisionError"]
             ELSE [stoichiometry |->
                       [i \in DOMAIN P.stoichiometry |-> Div(P.stoichiometry[i], factor)],
                   err |-> "none"]

\* Process._normalize_rate_eq: the factor is read from the stoichiometry as
\* it is when the method runs
_normalize_rate_eq(P, new_ref) ==
    LET factor == P.stoichiometry[IndexOf(P.components, new_ref)]
    IN  ScaleRate(P.rate_equation, factor)

\* Process.ref_component (setter): [proc, err]
ref_component_setter(P, ref_cmp) ==
    IF ref_cmp = ""
    THEN [proc |-> P, err |-> "none"]
    ELSE LET P1 == [P EXCEPT !.ref_component = ref_cmp]
             n  == _normalize_stoichiometry(P1, ref_cmp)
             P2 == [P1 EXCEPT !.stoichiometry = n.stoichiometry]
         IN  IF n.err # "none"
             THEN [proc |-> P1, err |-> n.err]
             ELSE [proc |-> [P2 EXCEPT !.rate_equation = _normalize_rate_eq(P2, ref_cmp)],
                   err  |-> "none"]

\* the instance attributes Process.__init__ sets
ProcessAttrs ==
    {"_ID", "_stoichiometry", "_components", "_ref_component",
     "_conserved_for", "_parameters", "_rate_equation"}

\* getattr(cmps, 'i_' + material): the content of the material per unit of
\* each component of the registry
i_(material, cmps) ==
    [j \in 1..Len(cmps) |->
        IF material = "COD" THEN (IF cmps[j] = "C" THEN Num(MaxCoeff) ELSE One)
        ELSE IF material = "N" THEN (IF cmps[j] = "C" THEN One ELSE Zero)
        ELSE Zero]

\* Process.get_conversion_factors: [arr, err]; the rows are read through the
\* attribute _conservation_for
get_conversion_factors(P) ==
    IF "_conservation_for" \notin ProcessAttrs
    THEN [arr |-> <<>>, err |-> "AttributeError"]
    ELSE [arr |-> [m \in 1..Len(P.conserved_for) |->
                      i_(P.conserved_for[m], P.components)],
          err |-> "none"]

\* ic @ v, one row
RECURSIVE Dot(_, _)
Dot(row, v) ==
    IF row = <<>> THEN Zero
    ELSE Add(Mul(row[1], v[1]), Dot(Tail(row), Tail(v)))

\* the default tolerance of check_conservation, 1e-8
tol == [n |-> 1, d |-> 100000000]

\* np.isclose(x, 0, atol): abs(x) <= atol, false for nan and the infinities
isclose(x, atol) == Fin(x) /\ AbsInt(x.n) * atol.d <= atol.n * x.d

\* Process.check_conservation: [err, unconserved], unconserved the list of
\* (material, value) the RuntimeError names
check_conservation(P, atol) ==
    IF P.kind = "array"
    THEN LET ic == get_conversion_factors(P)
         IN  IF ic.err # "none" THEN [err |-> ic.err, unconserved |-> <<>>]
             ELSE
             LET v        == P.stoichiometry
                 ic_dot_v == [m \in 1..Len(ic.arr) |-> Dot(ic.arr[m], v)]
                 pairs    == [m \in 1..Len(ic.arr) |->
                                 [material |-> P.conserved_for[m],
                                  value    |-> ic_dot_v[m]]]
                 unconserved == SelectSeq(pairs,
                                    LAMBDA x : ~isclose(x.value, atol))
             IN  IF unconserved = <<>>
                 THEN [err |-> "none", unconserved |-> <<>>]
                 ELSE [err |-> "RuntimeError", unconserved |-> unconserved]
    ELSE [err |-> "RuntimeError", unconserved |-> <<>>]


(***************************************************************************)
(* Processes / CompiledProcesses                                            *)
(*                                                                          *)
(* A collection object is its __dict__.  `dct` is the insertion-ordered     *)
(* list of its entries [key, proc]: proc is the Process object stored under *)
(* the key, or NotAProcess for the entries _compile adds ('tuple', 'size',  *)
(* ...), whose values are the record's other fields.                        *)
(***************************************************************************)
\* the keys CompiledProcesses._compile stores into __dict__, in order
CompiledKeys == <<"tuple", "size", "IDs", "_index", "_components",
                  "_parameters", "_stoichiometry", "_rate_equations",
                  "_production_rates">>

\* no object at this heap cell
NoColl ==
    [cls |-> "none", dct |-> <<>>, tuple |-> <<>>, size |-> 0, IDs |-> <<>>,
     _index |-> <<>>, _components |-> <<>>, _parameters |-> {},
     _stoichiometry |-> <<>>, numeric |-> TRUE, _rate_equations |-> <<>>,
     _production_rates |-> <<>>]

HasKey(dct, key) == \E i \in 1..Len(dct) : dct[i].key = key

\* dict[key] = proc: an existing key keeps its place
DictSet(dct, key, proc) ==
    IF HasKey(dct, key)
    THEN [i \in 1..Len(dct) |->
             IF dct[i].key = key THEN [key |-> key, proc |-> proc] ELSE dct[i]]
    ELSE Append(dct, [key |-> key, proc |-> proc])

DictGet(dct, key) == dct[CHOOSE i \in 1..Len(dct) : dct[i].key = key].proc

\* for i in processes: setfield(self, i.ID, i)
RECURSIVE SetFields(_, _)
SetFields(dct, processes) ==
    IF processes = <<>> THEN dct
    ELSE SetFields(DictSet(dct, procs[Head(processes)].ID, Head(processes)),
                   Tail(processes))

\* Processes.__new__
Processes__new__(processes) ==
    [NoColl EXCEPT !.cls = "Processes", !.dct = SetFields(<<>>, processes)]

\* Components([...]): the registry of the given components, one per ID, in
\* first-seen order
RECURSIVE Components(_)
Components(cmps) ==
    IF cmps = <<>> THEN <<>>
    ELSE LET front == Components(SubSeq(cmps, 1, Len(cmps) - 1))
             last  == cmps[Len(cmps)]
         IN  IF InSeq(front, last) THEN front ELSE Append(front, last)

\* [cmp for i in processes for cmp in i._components]
RECURSIVE AllComponents(_)
AllComponents(processes) ==
    IF processes = <<>> THEN <<>>
    ELSE procs[Head(processes)].components \o AllComponents(Tail(processes))

\* a row filled by position in the process's own registry
StoichRowByPosition(P, cmps) ==
    [j \in 1..Len(cmps) |->
        IF j <= Len(P.stoichiometry) THEN P.stoichiometry[j] ELSE Zero]

\* one row of M_stch: the sparse stoichiometry of a process laid out on the
\* columns of the merged registry
StoichRow(P, cmps) ==
    LET sparse == stoichiometry(P)
    IN  [j \in 1..Len(cmps) |->
            IF cmps[j] \in DOMAIN sparse THEN sparse[cmps[j]] ELSE Zero]

\* Matrix(M).T
Transpose(M, ncols) ==
    [j \in 1..ncols |-> [i \in 1..Len(M) |-> M[i][j]]]

\* a sum of monomials as sympy keeps it: symbol -> coefficient; nan absorbs
\* the whole expression
RECURSIVE SumTerms(_, _, _)
SumTerms(row, rates, sym) ==
    IF row = <<>> THEN Zero
    ELSE Add(IF rates[1].sym = sym THEN Mul(row[1], rates[1].k) ELSE Zero,
             SumTerms(Tail(row), Tail(rates), sym))

HasNaN(row, rates) ==
    \E i \in 1..Len(row) : Mul(row[i], rates[i].k) = NaN

\* a product that adds the coefficients without the rate expressions' factors
DotRatesUnweighted(row, rates) ==
    [s \in Range(RateSyms) |->
        SumTerms(row, [i \in 1..Len(rates) |-> [rates[i] EXCEPT !.k = One]], s)]

\* one entry of Matrix * column vector of rate equations
DotRates(row, rates) ==
    [s \in Range(RateSyms) |->
        IF HasNaN(row, rates) THEN NaN ELSE SumTerms(row, rates, s)]

\* a product taken without the transpose: one entry per process
ProductionRatesPerProcess(M, ncols, rates) ==
    [i \in 1..Len(M) |-> DotRates(<<M[i][1]>>, <<rates[i]>>)]

\* Matrix(M_stch).T * Matrix(rate_eqs)
ProductionRates(M, ncols, rates) ==
    LET MT == Transpose(M, ncols)
    IN  [j \in 1..ncols |-> DotRates(MT[j], rates)]

\* dict(zip(IDs, range(size))): a repeated ID keeps its last position
ZipIndex(IDs) ==
    [id \in Range(IDs) |->
        (CHOOSE i \in 1..Len(IDs) :
            IDs[i] = id /\ \A j \in 1..Len(IDs) : IDs[j] = id => j <= i) - 1]

RECURSIVE MarkCompiled(_, _)
MarkCompiled(dct, keys) ==
    IF keys = <<>> THEN dct
    ELSE MarkCompiled(DictSet(dct, Head(keys), NotAProcess), Tail(keys))

RECURSIVE UnionParams(_)
UnionParams(processes) ==
    IF processes = <<>> THEN {}
    ELSE procs[Head(processes)].parameters \cup UnionParams(Tail(processes))

\* CompiledProcesses._compile: [coll, err]
_compile(self) ==
    LET values == [i \in 1..Len(self.dct) |-> self.dct[i].proc]
    IN  IF \E i \in 1..Len(values) : values[i] = NotAProcess
        THEN [coll |-> self, err |-> "AttributeError"]
        ELSE
        LET processes == values
            IDs    == [i \in 1..Len(processes) |-> procs[processes[i]].ID]
            cmps   == Components(AllComponents(processes))
            rates  == [i \in 1..Len(processes) |-> procs[processes[i]].rate_equation]
            M_stch == [i \in 1..Len(processes) |-> StoichRow(procs[processes[i]], cmps)]
        IN  [coll |->
                [self EXCEPT
                    !.dct = MarkCompiled(@, CompiledKeys),
                    !.tuple = processes,
                    !.size = Len(IDs),
                    !.IDs = IDs,
                    !._index = ZipIndex(IDs),
                    !._components = cmps,
                    !._parameters = UnionParams(processes),
                    !.numeric = \A i \in 1..Len(processes) :
                                    procs[processes[i]].kind = "array",
                    !._stoichiometry = M_stch,
                    !._rate_equations = rates,
                    !._production_rates = ProductionRates(M_stch, Len(cmps), rates)],
             err |-> "none"]

\* CompiledProcesses.production_rates (property): component ID -> expression
production_rates(self) ==
    [c \in Range(self._components) |->
        self._production_rates[IndexOf(self._components, c)]]


\* the methods @read_only replaces: raise TypeError, touch nothing
deny(self) == [coll |-> self, err |-> "TypeError"]

\* an append that CompiledProcesses inherits undenied
append_not_read_only(self, process) ==
    IF process = NotAProcess THEN [coll |-> self, err |-> "TypeError"]
    ELSE IF HasKey(self.dct, procs[process].ID)
         THEN [coll |-> self, err |-> "ValueError"]
    ELSE [coll |-> [self EXCEPT !.dct = DictSet(@, procs[process].ID, process)],
          err  |-> "none"]

\* an append that stores the process without looking for its ID
append_overwrites(self, process) ==
    IF self.cls = "CompiledProcesses" THEN [coll |-> self, err |-> "TypeError"]
    ELSE IF process = NotAProcess THEN [coll |-> self, err |-> "TypeError"]
    ELSE [coll |-> [self EXCEPT !.dct = DictSet(@, procs[process].ID, process)],
          err  |-> "none"]

\* Processes.append: [coll, err]
append(self, process) ==
    IF self.cls = "CompiledProcesses" THEN deny(self)
    ELSE IF process = NotAProcess THEN [coll |-> self, err |-> "TypeError"]
    ELSE IF HasKey(self.dct, procs[process].ID)
         THEN [coll |-> self, err |-> "ValueError"]
    ELSE [coll |-> [self EXCEPT !.dct = DictSet(@, procs[process].ID, process)],
          err  |-> "none"]

\* for process in processes: self.append(process)
RECURSIVE AppendEach(_, _)
AppendEach(self, processes) ==
    IF processes = <<>> THEN [coll |-> self, err |-> "none"]
    ELSE LET r == append(self, Head(processes))
         IN  IF r.err # "none" THEN r ELSE AppendEach(r.coll, Tail(processes))

\* self.__dict__.update(other.__dict__)
RECURSIVE DictUpdate(_, _)
DictUpdate(dct, other) ==
    IF other = <<>> THEN dct
    ELSE DictUpdate(DictSet(dct, Head(other).key, Head(other).proc), Tail(other))

UpdateFrom(self, other) ==
    IF HasKey(other.dct, "tuple")
    THEN [other EXCEPT !.cls = self.cls, !.dct = DictUpdate(self.dct, other.dct)]
    ELSE [self EXCEPT !.dct = DictUpdate(self.dct, other.dct)]

\* Processes.extend with a Processes (or CompiledProcesses) argument
extend_processes(self, other) ==
    IF self.cls = "CompiledProcesses" THEN deny(self)
    ELSE [coll |-> UpdateFrom(self, other), err |-> "none"]

\* Processes.extend with an iterable of Process
extend_iterable(self, processes) ==
    IF self.cls = "CompiledProcesses" THEN deny(self)
    ELSE AppendEach(self, processes)

\* Processes.__setitem__ / the denied CompiledProcesses.__setitem__
__setitem__(self) == [coll |-> self, err |-> "TypeError"]

\* Processes.mycompile
mycompile(self) == _compile([self EXCEPT !.cls = "CompiledProcesses"])

\* CompiledProcesses.index: [idx, key, err]
index(self, ID) ==
    IF ID \in DOMAIN self._index
    THEN [idx |-> <<self._index[ID]>>, key |-> "", err |-> "none"]
    ELSE [idx |-> <<>>, key |-> ID, err |-> "UndefinedProcess"]

\* an indices that lets the KeyError of the lookup through
indices_key_error(self, IDs) ==
    IF \A i \in 1..Len(IDs) : IDs[i] \in DOMAIN self._index
    THEN [idx |-> [i \in 1..Len(IDs) |-> self._index[IDs[i]]], key |-> "",
          err |-> "none"]
    ELSE [idx |-> <<>>, key |-> "", err |-> "KeyError"]

\* CompiledProcesses.indices: [idx, key, err]
indices(self, IDs) ==
    IF \A i \in 1..Len(IDs) : IDs[i] \in DOMAIN self._index
    THEN [idx |-> [i \in 1..Len(IDs) |-> self._index[IDs[i]]], key |-> "",
          err |-> "none"]
    ELSE [idx |-> <<>>,
          key |-> IDs[CHOOSE i \in 1..Len(IDs) :
                        /\ IDs[i] \notin DOMAIN self._index
                        /\ \A j \in 1..(i - 1) : IDs[j] \in DOMAIN self._index],
          err |-> "UndefinedProcess"]

\* the attributes class Processes defines
ProcessesAttrs ==
    {"__new__", "__setattr__", "__setitem__", "__getitem__", "copy", "append",
     "extend", "subgroup", "mycompile", "show", "_ipython_display_",
     "__len__", "__contains__", "__iter__", "__repr__"}

\* Processes.__getitem__ with a list of IDs: [values, err]
__getitem__(self, key) ==
    IF \A i \in 1..Len(key) : HasKey(self.dct, key[i])
    THEN [values |-> [i \in 1..Len(key) |-> DictGet(self.dct, key[i])],
          err |-> "none"]
    ELSE [values |-> <<>>, err |-> "KeyError"]

\* Processes.__getitem__ with one string: [value, err]
getitem_str(self, key) ==
    IF HasKey(self.dct, key)
    THEN [value |-> <<DictGet(self.dct, key)>>, err |-> "none"]
    ELSE [value |-> <<>>, err |-> "KeyError"]

\* Processes.__len__: len(self.__dict__)
__len__(self) == Len(self.dct)

\* Processes.__contains__ and CompiledProcesses.__contains__ with a string:
\* process in self.__dict__
__contains__(self, process) == HasKey(self.dct, process)

\* Processes.__iter__: yield from self.__dict__.values()
__iter__(self) == [i \in 1..Len(self.dct) |-> self.dct[i].proc]

\* Processes.copy: [coll, err].  Every value of self.__dict__ is stored
\* under its ID
Processes_copy(self) ==
    IF \E i \in 1..Len(self.dct) : __iter__(self)[i] = NotAProcess
    THEN [coll |-> NoColl, err |-> "AttributeError"]
    ELSE [coll |-> Processes__new__(__iter__(self)), err |-> "none"]

\* Processes.subgroup: [coll, err].  The list of members is handed to
\* Process, whose __init__ requires reaction and ref_component as well
Processes_subgroup(self, IDs) ==
    IF \E i \in 1..Len(IDs) : ~HasKey(self.dct, IDs[i])
    THEN [coll |-> NoColl, err |-> "AttributeError"]
    ELSE [coll |-> NoColl, err |-> "TypeError"]

\* CompiledProcesses.subgroup: [coll, err].  new.compile() is looked up on a
\* Processes object
CompiledProcesses_subgroup(self, IDs) ==
    LET processes == __getitem__(self, IDs)
    IN  IF processes.err # "none" THEN [coll |-> NoColl, err |-> processes.err]
        ELSE IF \E i \in 1..Len(IDs) : processes.values[i] = NotAProcess
        THEN [coll |-> NoColl, err |-> "AttributeError"]
        ELSE IF "compile" \notin ProcessesAttrs
        THEN [coll |-> NoColl, err |-> "AttributeError"]
        ELSE [coll |-> Processes__new__(processes.values), err |-> "none"]

\* CompiledProcesses.copy: [coll, err].  Processes(self) stores every value
\* of self.__dict__ under its ID
CompiledProcesses_copy(self) ==
    LET values == [i \in 1..Len(self.dct) |-> self.dct[i].proc]
    IN  IF \E i \in 1..Len(values) : values[i] = NotAProcess
        THEN [coll |-> NoColl, err |-> "AttributeError"]
        ELSE mycompile(Processes__new__(values))

(***************************************************************************)
(* qsdsan/processes/_pm2.py: the PM2 process model, a CompiledProcesses     *)
(* built from a table of processes, with the rate function rhos_pm2 and the *)
(* two parameter tables (stoichiometric and kinetic).                       *)
(*                                                                          *)
(* A parameter value is a coefficient, or the record [default |-> name]     *)
(* for an argument left at the default of the parameter `name` in the       *)
(* signature of PM2.__new__.  A rate is the call that computes it: the      *)
(* function called, the substrate or storage pool it is given and the       *)
(* response or ATP yield that tells the phototrophic, acetate and glucose   *)
(* variants apart.                                                          *)
(***************************************************************************)
\* _path: the default process table
_path == "_pm2.tsv"

\* the tables the model reads: the default one, a copy of it somewhere else,
\* and a table that lists the nitrate uptakes itself
Paths == {_path, "copy_of_pm2.tsv", "pm2_with_nitrate.tsv"}

\* the rows of the default table
DefaultRows ==
    <<"photoadaptation", "ammonium_uptake", "phosphorus_uptake", "growth_pho",
      "carbohydrate_storage_pho", "lipid_storage_pho", "carbohydrate_growth_pho",
      "lipid_growth_pho", "carbohydrate_maintenance_pho", "lipid_maintenance_pho",
      "endogenous_respiration_pho", "growth_ace", "carbohydrate_storage_ace",
      "lipid_storage_ace", "carbohydrate_growth_ace", "lipid_growth_ace",
      "carbohydrate_maintenance_ace", "lipid_maintenance_ace",
      "endogenous_respiration_ace", "growth_glu", "carbohydrate_storage_glu",
      "lipid_storage_glu", "carbohydrate_growth_glu", "lipid_growth_glu",
      "carbohydrate_maintenance_glu", "lipid_maintenance_glu",
      "endogenous_respiration_glu">>

\* _p3, _p4, _p5
NitrateUptakes ==
    <<"nitrate_uptake_pho", "nitrate_uptake_ace", "nitrate_uptake_glu">>

\* Processes.load_from_file(path, ..., compile=False): one process per row of
\* the table, in the order of the rows; of the stoichiometry only the
\* coefficients of X_N_ALG and X_P_ALG in growth_pho are kept
load_from_file(path) ==
    [IDs |-> IF path = "pm2_with_nitrate.tsv" THEN DefaultRows \o NitrateUptakes
             ELSE DefaultRows,
     stoichiometry |->
         [X_N_ALG |-> IF path = "pm2_with_nitrate.tsv" THEN [n |-> -1, d |-> 5]
                      ELSE [n |-> -2, d |-> 25],
          X_P_ALG |-> [n |-> -2, d |-> 25]]]

_shared_params ==
    <<"Y_CH_PHO", "Y_LI_PHO", "Y_X_ALG_PHO",
      "Y_CH_NR_HET_ACE", "Y_LI_NR_HET_ACE", "Y_X_ALG_HET_ACE",
      "Y_CH_NR_HET_GLU", "Y_LI_NR_HET_GLU", "Y_X_ALG_HET_GLU">>

_stoichio_params ==
    <<"Y_CH_ND_HET_ACE", "Y_LI_ND_HET_ACE", "Y_CH_ND_HET_GLU", "Y_LI_ND_HET_GLU">>
    \o _shared_params

_kinetic_params ==
    <<"a_c", "I_n", "arr_a", "arr_e", "beta_1", "beta_2", "b_reactor", "I_opt",
      "k_gamma", "K_N", "K_P", "K_A", "K_F", "rho", "K_STO", "f_CH_max",
      "f_LI_max", "m_ATP", "mu_max", "q_CH", "q_LI", "Q_N_max", "Q_N_min",
      "Q_P_max", "Q_P_min", "V_NH", "V_NO", "V_P", "exponent",
      "Y_ATP_PHO", "Y_ATP_HET_ACE", "Y_ATP_HET_GLU">>
    \o _shared_params \o <<"cmps">>

\* dict(zip(keys, values))
Zip(keys, values) ==
    [k \in {keys[i] : i \in 1..(IF Len(keys) < Len(values) THEN Len(keys)
                                ELSE Len(values))} |->
        values[CHOOSE i \in 1..Len(keys) :
                  keys[i] = k /\ \A j \in 1..Len(keys) : keys[j] = k => j <= i]]

\* dict.update
Update(dct, other) ==
    [k \in DOMAIN dct \cup DOMAIN other |->
        IF k \in DOMAIN other THEN other[k] ELSE dct[k]]

\* x < y for two numbers
Less(x, y) == x.n * y.d < y.n * x.d

\* max(a, b): the first of the largest
Max(a, b) == IF Less(a, b) THEN b ELSE a

\* min(a, b): the first of the smallest
Min(a, b) == IF Less(b, a) THEN b ELSE a

\* Th_Q_N_min: abs(self.stoichiometry.loc['growth_pho', 'X_N_ALG']) * 1.001
Th_Q_N_min(self) ==
    Mul(AbsS(self.stoichiometry.X_N_ALG), [n |-> 1001, d |-> 1000])

\* Th_Q_P_min: abs(self.stoichiometry.loc['growth_pho', 'X_P_ALG']) * 1.001
Th_Q_P_min(self) ==
    Mul(AbsS(self.stoichiometry.X_P_ALG), [n |-> 1001, d |-> 1000])

\* no PM2 instance yet
NoPM2 ==
    [made |-> FALSE, IDs |-> <<>>,
     stoichiometry |-> [X_N_ALG |-> Zero, X_P_ALG |-> Zero],
     _parameters |-> [k \in {} |-> Zero], _params |-> [k \in {} |-> Zero]]

\* PM2.__new__(cls, components, <parameters>, path): `args` gives the value
\* of every parameter argument
PM2__new__(args, path0) ==
    LET path   == IF path0 = "" THEN _path ELSE path0
        loaded == load_from_file(path)
        \* if path == _path: self.extend([_p3, _p4, _p5])
        IDs    == IF path = _path THEN loaded.IDs \o NitrateUptakes
                  ELSE loaded.IDs
        \* self.compile(to_class=cls)
        self   == [NoPM2 EXCEPT !.made = TRUE, !.IDs = IDs,
                                !.stoichiometry = loaded.stoichiometry]
        stoichio_values ==
            <<args.Y_CH_ND_HET_ACE, args.Y_LI_ND_HET_ACE, args.Y_CH_ND_HET_GLU,
              args.Y_LI_ND_HET_GLU,
              args.Y_CH_PHO, args.Y_LI_PHO, args.Y_X_ALG_PHO,
              args.Y_CH_NR_HET_ACE, args.Y_LI_NR_HET_ACE, args.Y_X_ALG_HET_ACE,
              args.Y_CH_NR_HET_GLU, args.Y_LI_NR_HET_GLU, args.Y_X_ALG_HET_GLU>>
        Q_N_min == Max(Th_Q_N_min(self), args.Q_N_min)
        Q_P_min == Max(Th_Q_P_min(self), args.Q_P_min)
        kinetic_values ==
            <<args.a_c, args.I_n, args.arr_a, args.arr_e, args.beta_1,
              args.beta_2, args.b_reactor, args.I_opt, args.k_gamma,
              args.K_N, args.K_P, args.K_A, args.K_F, args.rho, args.K_STO,
              args.f_CH_max, args.f_LI_max, args.m_ATP, args.mu_max,
              args.q_CH, args.q_LI, args.Q_N_max, Q_N_min, args.Q_P_max,
              Q_P_min, args.V_NH, args.V_NO, args.V_P, args.exponent,
              args.Y_ATP_PHO, args.Y_ATP_HET_ACE, args.Y_ATP_HET_GLU,
              args.Y_CH_PHO, args.Y_LI_PHO, args.Y_X_ALG_PHO,
              args.Y_CH_NR_HET_ACE, args.Y_LI_NR_HET_ACE, args.Y_X_ALG_HET_ACE,
              args.Y_CH_NR_HET_GLU, args.Y_LI_NR_HET_GLU, args.Y_X_ALG_HET_GLU,
              [default |-> "cmps"]>>
    IN  [self EXCEPT !._parameters = Zip(_stoichio_params, stoichio_values),
                     !._params = Zip(_kinetic_params, kinetic_values)]

\* rate_function.set_param(**parameters)
set_param(self, parameters) ==
    [self EXCEPT !._params = Update(@, parameters)]

\* the names of `parameters` that are in _stoichio_params
stoichio_only(parameters) ==
    [k \in DOMAIN parameters \cap Range(_stoichio_params) |-> parameters[k]]

\* a set_parameters that writes both tables before it checks the minima
set_parameters_stores_first(self, parameters) ==
    LET stored == set_param([self EXCEPT !._parameters =
                                Update(@, stoichio_only(parameters))],
                            parameters)
    IN  IF "Q_N_min" \in DOMAIN parameters
           /\ Less(parameters.Q_N_min, Th_Q_N_min(stored))
        THEN [pm2 |-> stored, err |-> "ValueError"]
        ELSE IF "Q_P_min" \in DOMAIN parameters
                /\ Less(parameters.Q_P_min, Th_Q_P_min(stored))
        THEN [pm2 |-> stored, err |-> "ValueError"]
        ELSE [pm2 |-> stored, err |-> "none"]

\* a set_parameters that does not check the minima
set_parameters_unchecked(self, parameters) ==
    [pm2 |-> set_param([self EXCEPT !._parameters =
                            Update(@, stoichio_only(parameters))], parameters),
     err |-> "none"]

\* PM2.set_parameters(**parameters)
set_parameters(self, parameters) ==
    LET updated == [self EXCEPT !._parameters =
                        Update(@, stoichio_only(parameters))]
    IN  IF "Q_N_min" \in DOMAIN parameters
           /\ Less(parameters.Q_N_min, Th_Q_N_min(updated))
        THEN [pm2 |-> updated, err |-> "ValueError"]
        ELSE IF "Q_P_min" \in DOMAIN parameters
                /\ Less(parameters.Q_P_min, Th_Q_P_min(updated))
        THEN [pm2 |-> updated, err |-> "ValueError"]
        ELSE [pm2 |-> set_param(updated, parameters), err |-> "none"]

\* the defaults, in the signature of PM2.__new__, of the bounds of the ratios
DefaultValue ==
    [f_CH_max |-> [n |-> 819, d |-> 1000], f_LI_max |-> [n |-> 3249, d |-> 1000],
     Q_N_max |-> [n |-> 417, d |-> 1000], Q_N_min |-> [n |-> 41, d |-> 500],
     Q_P_max |-> [n |-> 23, d |-> 250], Q_P_min |-> [n |-> 163, d |-> 10000]]

\* params[name], as a number
Param(params, name) ==
    IF "default" \in DOMAIN params[name] THEN DefaultValue[name]
    ELSE params[name]

\* ratio(numerator, denominator, minimum, maximum):
\* min(max(minimum, numerator / denominator), maximum), on numpy floats
ratio(numerator, denominator, minimum, maximum) ==
    Min(Max(minimum, Div(numerator, denominator)), maximum)

\* the calls of ratio in rhos_pm2: f_CH, f_LI, Q_N and Q_P
RatioCalls(state_arr, params) ==
    [f_CH |-> [numerator |-> state_arr.X_CH, denominator |-> state_arr.X_ALG,
               minimum |-> Zero, maximum |-> Param(params, "f_CH_max")],
     f_LI |-> [numerator |-> state_arr.X_LI, denominator |-> state_arr.X_ALG,
               minimum |-> Zero, maximum |-> Param(params, "f_LI_max")],
     Q_N  |-> [numerator |-> state_arr.X_N_ALG, denominator |-> state_arr.X_ALG,
               minimum |-> Param(params, "Q_N_min"),
               maximum |-> Param(params, "Q_N_max")],
     Q_P  |-> [numerator |-> state_arr.X_P_ALG, denominator |-> state_arr.X_ALG,
               minimum |-> Param(params, "Q_P_min"),
               maximum |-> Param(params, "Q_P_max")]]

\* the intermediate variables f_CH, f_LI, Q_N and Q_P of rhos_pm2
intermediates(state_arr, params) ==
    [v \in DOMAIN RatioCalls(state_arr, params) |->
        LET c == RatioCalls(state_arr, params)[v]
        IN  ratio(c.numerator, c.denominator, c.minimum, c.maximum)]

\* np.empty(30): a slot nothing was assigned to holds whatever was in memory
Unassigned == [fn |-> "unassigned", arg |-> "", by |-> ""]

\* the assignments rhos[i] = ... of rhos_pm2, in the order they are made
RateAssignments ==
    <<[i |-> 0, fn |-> "photoadaptation", arg |-> "", by |-> ""],
      [i |-> 1, fn |-> "nutrient_uptake", arg |-> "S_NH", by |-> ""],
      [i |-> 27, fn |-> "nutrient_uptake", arg |-> "S_NO", by |-> ""],
      [i |-> 28, fn |-> "nutrient_uptake", arg |-> "S_NO", by |-> ""],
      [i |-> 29, fn |-> "nutrient_uptake", arg |-> "S_NO", by |-> ""],
      [i |-> 2, fn |-> "nutrient_uptake", arg |-> "S_P", by |-> ""],
      [i |-> 3, fn |-> "growth", arg |-> "", by |-> "f_I"],
      [i |-> 11, fn |-> "growth", arg |-> "", by |-> "acetate_response"],
      [i |-> 19, fn |-> "growth", arg |-> "", by |-> "glucose_response"],
      [i |-> 4, fn |-> "storage", arg |-> "f_CH", by |-> "f_I"],
      [i |-> 5, fn |-> "storage", arg |-> "f_LI", by |-> "f_I"],
      [i |-> 12, fn |-> "storage", arg |-> "f_CH", by |-> "acetate_response"],
      [i |-> 13, fn |-> "storage", arg |-> "f_LI", by |-> "acetate_response"],
      [i |-> 20, fn |-> "storage", arg |-> "f_CH", by |-> "glucose_response"],
      [i |-> 21, fn |-> "storage", arg |-> "f_LI", by |-> "glucose_response"],
      [i |-> 6, fn |-> "growth_on_carbohydrate", arg |-> "", by |-> "f_I"],
      [i |-> 14, fn |-> "growth_on_carbohydrate", arg |-> "",
       by |-> "acetate_response"],
      [i |-> 22, fn |-> "growth_on_carbohydrate", arg |-> "",
       by |-> "glucose_response"],
      [i |-> 7, fn |-> "growth_on_lipid", arg |-> "", by |-> "f_I"],
      [i |-> 15, fn |-> "growth_on_lipid", arg |-> "", by |-> "acetate_response"],
      [i |-> 23, fn |-> "growth_on_lipid", arg |-> "", by |-> "glucose_response"],
      [i |-> 8, fn |-> "carbohydrate_maintenance", arg |-> "", by |-> "Y_ATP_PHO"],
      [i |-> 16, fn |-> "carbohydrate_maintenance", arg |-> "",
       by |-> "Y_ATP_HET_ACE"],
      [i |-> 24, fn |-> "carbohydrate_maintenance", arg |-> "",
       by |-> "Y_ATP_HET_GLU"],
      [i |-> 9, fn |-> "lipid_maintenance", arg |-> "", by |-> "Y_ATP_PHO"],
      [i |-> 17, fn |-> "lipid_maintenance", arg |-> "", by |-> "Y_ATP_HET_ACE"],
      [i |-> 25, fn |-> "lipid_maintenance", arg |-> "", by |-> "Y_ATP_HET_GLU"],
      [i |-> 10, fn |-> "endogenous_respiration", arg |-> "", by |-> "Y_ATP_PHO"],
      [i |-> 18, fn |-> "endogenous_respiration", arg |-> "",
       by |-> "Y_ATP_HET_ACE"],
      [i |-> 26, fn |-> "endogenous_respiration", arg |-> "",
       by |-> "Y_ATP_HET_GLU"]>>

RECURSIVE Assign(_, _, _)
\* the array after the assignments stmts[k], stmts[k + 1], ...
Assign(rhos, stmts, k) ==
    IF k > Len(stmts) THEN rhos
    ELSE Assign([rhos EXCEPT ![stmts[k].i + 1] =
                    [fn |-> stmts[k].fn, arg |-> stmts[k].arg, by |-> stmts[k].by]],
                stmts, k + 1)

\* rhos_pm2(state_arr, params): position i of the array is index i + 1 here
rhos_pm2 == Assign([i \in 1..30 |-> Unassigned], RateAssignments, 1)

(***************************************************************************)
(* qsdsan/_impact_item.py: ImpactItem and StreamImpactItem objects and the  *)
(* class-level registry ImpactItem._items.                                  *)
(*                                                                          *)
(* An item is a cell of the heap `items`.  Both classes declare __slots__,  *)
(* so an attribute that was never assigned does not exist and reading it    *)
(* raises AttributeError: `set` is the set of slots that were assigned, and *)
(* the fields _ID, _CFs, _source and _registered hold their values (the     *)
(* functional unit, the price and the linked stream are not looked at; only *)
(* whether they were assigned is kept).  _source is a cell, or 0 for None.  *)
(* The registry is the dict _items, from IDs to cells.                      *)
(***************************************************************************)
\* None as an ID (no item is given the string "None" as its ID)
None == "None"

\* the IDs given to items, in sorted order
ItemIDs == <<"a", "b">>

\* the impact indicators
Indicators == {"GlobalWarming"}

\* the characterization factors given
CFValues == {1, 2}

Items == 1..MaxItems

\* ImpactItem.__slots__
ImpactItem__slots__ ==
    <<"_ID", "_functional_unit", "_price", "_CFs", "_source", "_registered">>

\* StreamImpactItem.__slots__
StreamImpactItem__slots__ ==
    <<"_ID", "_linked_stream", "_functional_unit", "_CFs", "_source",
      "_registered">>

\* cls.__new__(cls): an object with no slot assigned
NoItem ==
    [cls |-> "none", set |-> {}, _ID |-> None, _CFs |-> [i \in {} |-> 0],
     _source |-> 0, _registered |-> FALSE, _linked_stream |-> 0]

\* the next free cell of the heap (0 when it is full)
NewItem(heap) ==
    IF \E i \in Items : heap[i].cls = "none"
    THEN CHOOSE i \in Items : heap[i].cls = "none"
                              /\ \A j \in Items : heap[j].cls = "none" => i <= j
    ELSE 0

Streams == 1..NumStreams

\* a SanStream that no impact item is linked to
NoStream == [_impact_item |-> 0]

\* SanStream.impact_item = i, i an item or None (0)
impact_item_setter(strs, stream, i) ==
    [strs EXCEPT ![stream]._impact_item = i]

\* StreamImpactItem.linked_stream = new_s: [items, streams, err].  new_s is
\* [kind, s]: a SanStream s, the ID of stream s in a registry (s = 0: an ID
\* no registry has), None, or an object of another type
linked_stream_setter(heap, strs, self, new_s) ==
    IF new_s.kind = "str" /\ new_s.s = 0
    THEN [items |-> heap, streams |-> strs, err |-> "ValueError"]
    ELSE IF new_s.kind = "other"
    THEN [items |-> heap, streams |-> strs, err |-> "TypeError"]
    ELSE IF "_linked_stream" \notin heap[self].set
    THEN [items |-> heap, streams |-> strs, err |-> "AttributeError"]
    ELSE
    LET old_s    == heap[self]._linked_stream
        \* if self._linked_stream: self._linked_stream.impact_item = None
        unlinked == IF old_s # 0 THEN impact_item_setter(strs, old_s, 0) ELSE strs
    IN  \* the warning of the unlinking reads new_s.ID
        IF old_s # 0 /\ new_s.s = 0
        THEN [items |-> heap, streams |-> unlinked, err |-> "AttributeError"]
        ELSE [items   |-> [heap EXCEPT ![self]._linked_stream = new_s.s],
              \* if new_s: new_s._impact_item = self
              streams |-> IF new_s.s # 0
                          THEN [unlinked EXCEPT ![new_s.s]._impact_item = self]
                          ELSE unlinked,
              err     |-> "none"]

\* get_source_item(item): item if not item.source else item.source
get_source_item(heap, item) ==
    IF "_source" \notin heap[item].set THEN [item |-> 0, err |-> "AttributeError"]
    ELSE IF heap[item]._source = 0 THEN [item |-> item, err |-> "none"]
    ELSE [item |-> heap[item]._source, err |-> "none"]

\* the CFs property: get_source_item(self)._CFs
CFs(heap, self) ==
    LET s == get_source_item(heap, self)
    IN  IF s.err # "none" THEN [value |-> [i \in {} |-> 0], err |-> s.err]
        ELSE IF "_CFs" \notin heap[s.item].set
        THEN [value |-> [i \in {} |-> 0], err |-> "AttributeError"]
        ELSE [value |-> heap[s.item]._CFs, err |-> "none"]

\* add_indicator(indicator, CF_value): source_item._CFs[indicator.ID] = CF_value
add_indicator(heap, self, indicator, CF_value) ==
    LET s == get_source_item(heap, self)
    IN  IF s.err # "none" THEN [items |-> heap, err |-> s.err]
        ELSE IF "_CFs" \notin heap[s.item].set
        THEN [items |-> heap, err |-> "AttributeError"]
        ELSE [items |-> [heap EXCEPT ![s.item]._CFs =
                            [i \in DOMAIN @ \cup {indicator} |->
                                IF i = indicator THEN CF_value ELSE @[i]]],
              err |-> "none"]

\* ImpactItem.__init__(ID, source=source): without a source the constructor
\* fills the slots and then reads `register`, a name that is neither an
\* argument nor a global (NameError: the caller gets no object); with a
\* source it sets _ID (self._register(ID)) and _source only
ImpactItem__init__(heap, ID, source) ==
    IF source = 0 THEN [items |-> heap, item |-> 0, err |-> "NameError"]
    ELSE LET new == NewItem(heap)
         IN  [items |-> [heap EXCEPT ![new] =
                            [NoItem EXCEPT !.cls = "ImpactItem",
                                           !.set = {"_ID", "_source"},
                                           !._ID = ID, !._source = source]],
              item |-> new, err |-> "none"]

\* the loop of StreamImpactItem.__init__ over old.__slots__ reads every slot
\* of the item in the registry and of the new one
SlotsReadable(old, self) ==
    LET slots == IF old.cls = "ImpactItem" THEN ImpactItem__slots__
                 ELSE StreamImpactItem__slots__
    IN  \A i \in 1..Len(slots) : slots[i] \in old.set /\ slots[i] \in self.set

\* StreamImpactItem.__init__(ID, linked_stream=None, source, register)
StreamImpactItem__init__(heap, reg, ID, source, register) ==
    LET new  == NewItem(heap)
        base == [NoItem EXCEPT !.cls = "StreamImpactItem",
                               !.set = {"_linked_stream", "_registered", "_ID"},
                               !._registered = register, !._ID = ID]
        self == IF source # 0
                THEN [base EXCEPT !.set = @ \cup {"_source"}, !._source = source]
                ELSE [base EXCEPT !.set = @ \cup {"_source", "_functional_unit",
                                                  "_CFs"}]
    IN  IF source # 0 /\ heap[source].cls # "StreamImpactItem"
        THEN [items |-> heap, registry |-> reg, item |-> 0, err |-> "ValueError"]
        ELSE IF ~register
        THEN [items |-> [heap EXCEPT ![new] = self], registry |-> reg,
              item |-> new, err |-> "none"]
        ELSE IF ID \in DOMAIN reg
        THEN (IF SlotsReadable(heap[reg[ID]], self)
              THEN [items |-> [heap EXCEPT ![new] = self], registry |-> reg,
                    item |-> new, err |-> "none"]
              ELSE [items |-> heap, registry |-> reg, item |-> 0,
                    err |-> "AttributeError"])
        ELSE [items |-> [heap EXCEPT ![new] = [self EXCEPT !._registered = TRUE]],
              registry |-> [k \in DOMAIN reg \cup {ID} |->
                               IF k = ID THEN new ELSE reg[k]],
              item |-> new, err |-> "none"]

\* the loop of copy over the slots: setattr(new, slot, copy_maybe(value)) for
\* every slot but `skipped`.  copy_maybe copies the dict of CFs; a source to
\* copy would be an item with every slot assigned and a source of its own,
\* which no constructor and no copy makes.
CopySlots(self, new, slots, skipped) ==
    IF \E i \in 1..Len(slots) : slots[i] \notin skipped /\ slots[i] \notin self.set
    THEN [item |-> new, err |-> "AttributeError"]
    ELSE [item |-> [new EXCEPT !.set = @ \cup (Range(slots) \ skipped),
                               !._CFs = self._CFs, !._source = self._source,
                               !._registered = self._registered],
          err |-> "none"]

\* the end of copy: if register: self._items[ID] = new; new._registered = True
\* else: new._registered = False
RegisterCopy(heap, reg, new, item, register) ==
    [items |-> [heap EXCEPT ![new] =
                   [item EXCEPT !.set = @ \cup {"_registered"},
                                !._registered = register]],
     registry |-> IF register
                  THEN [k \in DOMAIN reg \cup {item._ID} |->
                           IF k = item._ID THEN new ELSE reg[k]]
                  ELSE reg,
     item |-> new, err |-> "none"]

\* ImpactItem.copy(new_ID, set_as_source, register)
ImpactItem_copy(heap, reg, self, new_ID, set_as_source, register) ==
    LET new   == NewItem(heap)
        fresh == [NoItem EXCEPT !.cls = "ImpactItem", !.set = {"_ID"},
                                !._ID = new_ID]
        r     == IF set_as_source
                 THEN [item |-> [fresh EXCEPT !.set = @ \cup {"_source"},
                                              !._source = self],
                       err |-> "none"]
                 ELSE CopySlots(heap[self], fresh, ImpactItem__slots__, {"_ID"})
    IN  IF r.err # "none"
        THEN [items |-> heap, registry |-> reg, item |-> 0, err |-> r.err]
        ELSE RegisterCopy(heap, reg, new, r.item, register)

\* StreamImpactItem.copy(new_ID, stream=None, set_as_source, register)
StreamImpactItem_copy(heap, reg, self, new_ID, set_as_source, register) ==
    LET new   == NewItem(heap)
        fresh == [NoItem EXCEPT !.cls = "StreamImpactItem",
                                !.set = {"_ID", "_linked_stream"}, !._ID = new_ID]
        r     == IF set_as_source
                 THEN [item |-> [fresh EXCEPT !.set = @ \cup {"_source"},
                                              !._source = self],
                       err |-> "none"]
                 ELSE CopySlots(heap[self], fresh, StreamImpactItem__slots__,
                                {"_ID", "_linked_stream"})
    IN  IF r.err # "none"
        THEN [items |-> heap, registry |-> reg, item |-> 0, err |-> r.err]
        ELSE RegisterCopy(heap, reg, new, r.item, register)

\* item.copy(...): the method of the item's class
copy(heap, reg, self, new_ID, set_as_source, register) ==
    IF heap[self].cls = "StreamImpactItem"
    THEN StreamImpactItem_copy(heap, reg, self, new_ID, set_as_source, register)
    ELSE ImpactItem_copy(heap, reg, self, new_ID, set_as_source, register)

\* register()
ImpactItem_register(heap, reg, self) ==
    IF "_registered" \notin heap[self].set
    THEN [items |-> heap, registry |-> reg, err |-> "AttributeError"]
    ELSE IF heap[self]._registered
    THEN [items |-> heap, registry |-> reg, err |-> "none"]
    ELSE [items |-> heap,
          registry |-> [k \in DOMAIN reg \cup {heap[self]._ID} |->
                           IF k = heap[self]._ID THEN self ELSE reg[k]],
          err |-> "none"]

\* deregister(): self._items.pop(ID); self._registered = False
deregister(heap, reg, self) ==
    IF heap[self]._ID \notin DOMAIN reg
    THEN [items |-> heap, registry |-> reg, err |-> "KeyError"]
    ELSE [items |-> [heap EXCEPT ![self] =
                        [@ EXCEPT !.set = @ \cup {"_registered"},
                                  !._registered = FALSE]],
          registry |-> [k \in DOMAIN reg \ {heap[self]._ID} |-> reg[k]],
          err |-> "none"]

\* ImpactItem.clear_registry()
clear_registry(heap, reg) ==
    [items |-> [i \in Items |->
                   IF \E k \in DOMAIN reg : reg[k] = i
                   THEN [heap[i] EXCEPT !.set = @ \cup {"_registered"},
                                        !._registered = FALSE]
                   ELSE heap[i]],
     registry |-> [k \in {} |-> 0],
     err |-> "none"]

\* a < b for two IDs: None is ordered with nothing, not even with None
IDBefore(a, b) ==
    \E i, j \in 1..Len(ItemIDs) : ItemIDs[i] = a /\ ItemIDs[j] = b /\ i < j

RECURSIVE SetToSeq(_)
\* the elements of a set, in some order
SetToSeq(S) ==
    IF S = {} THEN <<>>
    ELSE LET x == CHOOSE x \in S : TRUE IN <<x>> \o SetToSeq(S \ {x})

\* ImpactItem.get_all_items():
\* sorted(set(i for i in cls._items.values()), key=lambda i: i.ID)
get_all_items(heap, reg) ==
    LET values == {reg[k] : k \in DOMAIN reg}
    IN  IF Cardinality(values) > 1 /\ \E i \in values : heap[i]._ID = None
        THEN [value |-> <<>>, err |-> "TypeError"]
        ELSE [value |-> SortSeq(SetToSeq(values),
                                LAMBDA i, j : IDBefore(heap[i]._ID, heap[j]._ID)),
              err |-> "none"]

(***************************************************************************)
(* The state machine.  `ret` is the outcome of the last call: the operation,*)
(* the exception it raised ("none" when it returned), the object it acted   *)
(* on or returned, the ID an UndefinedProcess error carries, the positions  *)
(* index / indices returned and the tuple a CompiledProcesses was asked for.*)
(***************************************************************************)
Ret(op, err) ==
    [op |-> op, err |-> err, coll |-> 0, key |-> "", idx |-> <<>>, arg |-> <<>>,
     unconserved |-> <<>>, value |-> <<>>, locals |-> <<>>]

Colls == 1..MaxColls

Live == {c \in Colls : colls[c].cls # "none"}

Free == {c \in Colls : colls[c].cls = "none"}

\* object.__new__: the next heap cell
NewColl == CHOOSE c \in Free : \A d \in Free : c <= d

\* tuples of Process objects of the given lengths
Tuples(lo, hi) == UNION {[1..k -> ProcObjs] : k \in lo..hi}

\* the IDs index and indices are asked for
LookupIDs == Range(ProcIDs)

\* the Process objects as their constructor leaves them
Constructed(i, every) ==
    {NewProcess(i, r, k) : r \in Reactions(i, every), k \in Kinds(i, every)}

ProcHeaps(every) ==
    {f \in [ProcObjs -> UNION {Constructed(i, every) : i \in ProcObjs}] :
        \A i \in ProcObjs : f[i] \in Constructed(i, every)}

Threads == 1..NumThreads

\* a thread that is not inside CompiledProcesses.__new__
IdleThread ==
    [pc |-> "idle", processes |-> <<>>, self |-> 0, err |-> "none",
     fresh |-> FALSE]

InitWith(every) ==
    /\ procs \in ProcHeaps(every)
    /\ colls = [c \in Colls |-> NoColl]
    /\ cache = [t \in {} |-> 0]
    /\ ret = Ret("init", "none")
    /\ threads = [t \in Threads |-> IdleThread]
    /\ pm2 = NoPM2
    /\ items = [i \in Items |-> NoItem]
    /\ registry = [k \in {} |-> 0]
    /\ streams = [s \in Streams |-> NoStream]

Init == InitWith(FALSE)

InitProcess == InitWith(TRUE)

\* p.reverse()
CallReverse(p) ==
    /\ procs' = [procs EXCEPT ![p] = reverse(@)]
    /\ ret' = Ret("reverse", "none")
    /\ UNCHANGED <<colls, cache, elsewhere>>

\* p.ref_component = ref_cmp
CallSetRefComponent(p, ref_cmp) ==
    LET r == ref_component_setter(procs[p], ref_cmp)
    IN  /\ procs' = [procs EXCEPT ![p] = r.proc]
        /\ ret' = Ret("ref_component", r.err)
        /\ UNCHANGED <<colls, cache, elsewhere>>

\* the reactions Process object p is constructed from
ReactionTexts(p) ==
    {Terms(r, Registries[((p - 1) % Len(Registries)) + 1]) : r \in Reactions(p, TRUE)}

\* p = Process(ID, reaction, ref_component, rate_equation, components)
CallProcess(p, terms, kind) ==
    /\ procs' = [procs EXCEPT ![p] =
                    NewProcess(p, get_stoichiometric_coeff(terms,
                                      Registries[((p - 1) % Len(Registries)) + 1]),
                               kind)]
    /\ ret' = Ret("Process", "none")
    /\ UNCHANGED <<colls, cache, elsewhere>>

\* p.check_conservation()
CallCheckConservation(p) ==
    LET r == check_conservation(procs[p], tol)
    IN  /\ ret' = [Ret("check_conservation", r.err) EXCEPT
                       !.unconserved = r.unconserved]
        /\ UNCHANGED <<procs, colls, cache, elsewhere>>

\* Processes(processes)
CallProcesses(processes) ==
    /\ Free # {}
    /\ colls' = [colls EXCEPT ![NewColl] = Processes__new__(processes)]
    /\ ret' = [Ret("Processes", "none") EXCEPT !.coll = NewColl]
    /\ UNCHANGED <<procs, cache, elsewhere>>

\* a cache keyed by the processes in sorted order
CacheKeyUnordered(processes) == SortSeq(processes, LAMBDA a, b : a < b)

\* processes = tuple(processes): the cache key, a tuple of Process objects
\* compared by identity, in the order given
CacheKey(processes) == processes

\* CompiledProcesses(processes): CompiledProcesses.__new__
CallCompiledProcesses(processes) ==
    IF CacheKey(processes) \in DOMAIN cache
    THEN /\ ret' = [Ret("CompiledProcesses", "none") EXCEPT
                        !.coll = cache[CacheKey(processes)], !.arg = processes]
         /\ UNCHANGED <<procs, colls, cache, elsewhere>>
    ELSE /\ Free # {}
         /\ LET self == [NoColl EXCEPT !.cls = "CompiledProcesses",
                                       !.dct = SetFields(<<>>, processes)]
                r    == _compile(self)
            IN  IF r.err = "none"
                THEN /\ colls' = [colls EXCEPT ![NewColl] = r.coll]
                     /\ cache' = cache @@ (CacheKey(processes) :> NewColl)
                     /\ ret' = [Ret("CompiledProcesses", "none") EXCEPT
                                    !.coll = NewColl, !.arg = processes]
                ELSE /\ ret' = [Ret("CompiledProcesses", r.err) EXCEPT
                                    !.arg = processes]
                     /\ UNCHANGED <<colls, cache>>
         /\ UNCHANGED <<procs, elsewhere>>

\* CompiledProcesses._compile left by an exception of cmps.compile(): tuple,
\* size, IDs and _index are stored, the rest is not
_compile_raising(self) ==
    LET processes == [i \in 1..Len(self.dct) |-> self.dct[i].proc]
        IDs == [i \in 1..Len(processes) |-> procs[processes[i]].ID]
    IN  [coll |-> [self EXCEPT
                      !.dct = MarkCompiled(@, SubSeq(CompiledKeys, 1, 4)),
                      !.tuple = processes,
                      !.size = Len(IDs),
                      !.IDs = IDs,
                      !._index = ZipIndex(IDs)],
         err |-> "CompileError"]

\* a CompiledProcesses.__new__ that stores the object in the cache before it
\* compiles it
CompiledProcesses__new___caches_first(cch, processes, raises, new) ==
    IF CacheKey(processes) \in DOMAIN cch
    THEN [self |-> cch[CacheKey(processes)], obj |-> NoColl, cache |-> cch,
          err |-> "none"]
    ELSE LET self == [NoColl EXCEPT !.cls = "CompiledProcesses",
                                    !.dct = SetFields(<<>>, processes)]
             r    == IF raises THEN _compile_raising(self) ELSE _compile(self)
         IN  [self |-> IF r.err = "none" THEN new ELSE 0, obj |-> r.coll,
              cache |-> cch @@ (CacheKey(processes) :> new), err |-> r.err]

\* CompiledProcesses.__new__, statement by statement: [self, obj, cache, err].
\* cch is the cache, new the heap cell object.__new__ returns, raises tells
\* whether cmps.compile() raises; obj is the object left at that cell
\* (NoColl when no reference to it remains)
CompiledProcesses__new__(cch, processes, raises, new) ==
    IF CacheKey(processes) \in DOMAIN cch
    THEN [self |-> cch[CacheKey(processes)], obj |-> NoColl, cache |-> cch,
          err |-> "none"]
    ELSE LET self == [NoColl EXCEPT !.cls = "CompiledProcesses",
                                    !.dct = SetFields(<<>>, processes)]
             r    == IF raises THEN _compile_raising(self) ELSE _compile(self)
         IN  IF r.err # "none"
             THEN [self |-> 0, obj |-> NoColl, cache |-> cch, err |-> r.err]
             ELSE [self |-> new, obj |-> r.coll,
                   cache |-> cch @@ (CacheKey(processes) :> new), err |-> "none"]

\* CompiledProcesses(processes), where the compile step may raise
CallCompiledProcessesNew(processes, raises) ==
    /\ CacheKey(processes) \in DOMAIN cache \/ Free # {}
    /\ LET r == CompiledProcesses__new__(cache, processes, raises,
                    IF Free = {} THEN 0 ELSE NewColl)
       IN  /\ colls' = IF r.obj = NoColl THEN colls
                       ELSE [colls EXCEPT ![NewColl] = r.obj]
           /\ cache' = r.cache
           /\ ret' = [Ret("CompiledProcesses", r.err) EXCEPT
                          !.coll = r.self, !.arg = processes]
    /\ UNCHANGED <<procs, elsewhere>>

\* c.append(process)
CallAppend(c, process) ==
    LET r == append(colls[c], process)
    IN  /\ colls' = [colls EXCEPT ![c] = r.coll]
        /\ ret' = [Ret("append", r.err) EXCEPT !.coll = c]
        /\ UNCHANGED <<procs, cache, elsewhere>>

\* c.extend(o), o a collection
CallExtendProcesses(c, o) ==
    LET r == extend_processes(colls[c], colls[o])
    IN  /\ colls' = [colls EXCEPT ![c] = r.coll]
        /\ ret' = [Ret("extend", r.err) EXCEPT !.coll = c]
        /\ UNCHANGED <<procs, cache, elsewhere>>

\* c.extend(processes), processes a tuple or list of Process
CallExtendIterable(c, processes) ==
    LET r == extend_iterable(colls[c], processes)
    IN  /\ colls' = [colls EXCEPT ![c] = r.coll]
        /\ ret' = [Ret("extend", r.err) EXCEPT !.coll = c]
        /\ UNCHANGED <<procs, cache, elsewhere>>

\* c[ID] = process
CallSetItem(c, ID, process) ==
    LET r == __setitem__(colls[c])
    IN  /\ colls' = [colls EXCEPT ![c] = r.coll]
        /\ ret' = [Ret("__setitem__", r.err) EXCEPT !.coll = c]
        /\ UNCHANGED <<procs, cache, elsewhere>>

\* c.mycompile(); a collection without members is not compiled
CallMyCompile(c) ==
    /\ colls[c].dct # <<>>
    /\ LET r == mycompile(colls[c])
       IN  /\ colls' = [colls EXCEPT ![c] = r.coll]
           /\ ret' = [Ret("mycompile", r.err) EXCEPT !.coll = c]
    /\ UNCHANGED <<procs, cache, elsewhere>>

\* c.index(ID)
CallIndex(c, ID) ==
    /\ colls[c].cls = "CompiledProcesses"
    /\ LET r == index(colls[c], ID)
       IN  ret' = [Ret("index", r.err) EXCEPT
                       !.coll = c, !.idx = r.idx, !.key = r.key]
    /\ UNCHANGED <<procs, colls, cache, elsewhere>>

\* c.indices(IDs)
CallIndices(c, IDs) ==
    /\ colls[c].cls = "CompiledProcesses"
    /\ LET r == indices(colls[c], IDs)
       IN  ret' = [Ret("indices", r.err) EXCEPT
                       !.coll = c, !.idx = r.idx, !.key = r.key]
    /\ UNCHANGED <<procs, colls, cache, elsewhere>>

\* c.subgroup(IDs): the method of the object's class
CallSubgroup(c, IDs) ==
    LET r == IF colls[c].cls = "CompiledProcesses"
             THEN CompiledProcesses_subgroup(colls[c], IDs)
             ELSE Processes_subgroup(colls[c], IDs)
    IN  /\ IF r.err = "none"
           THEN /\ Free # {}
                /\ colls' = [colls EXCEPT ![NewColl] = r.coll]
                /\ ret' = [Ret("subgroup", "none") EXCEPT !.coll = NewColl]
           ELSE /\ ret' = Ret("subgroup", r.err)
                /\ UNCHANGED colls
        /\ UNCHANGED <<procs, cache, elsewhere>>

\* c.copy(), c a CompiledProcesses
CallCopy(c) ==
    /\ colls[c].cls = "CompiledProcesses"
    /\ LET r == CompiledProcesses_copy(colls[c])
       IN  IF r.err = "none"
           THEN /\ Free # {}
                /\ colls' = [colls EXCEPT ![NewColl] = r.coll]
                /\ ret' = [Ret("copy", "none") EXCEPT !.coll = NewColl]
           ELSE /\ ret' = Ret("copy", r.err)
                /\ UNCHANGED colls
    /\ UNCHANGED <<procs, cache, elsewhere>>

\* c.copy(), c a Processes
CallProcessesCopy(c) ==
    /\ colls[c].cls = "Processes"
    /\ LET r == Processes_copy(colls[c])
       IN  IF r.err = "none"
           THEN /\ Free # {}
                /\ colls' = [colls EXCEPT ![NewColl] = r.coll]
                /\ ret' = [Ret("copy", "none") EXCEPT !.coll = NewColl,
                                                      !.arg = <<c>>]
           ELSE /\ ret' = [Ret("copy", r.err) EXCEPT !.arg = <<c>>]
                /\ UNCHANGED colls
    /\ UNCHANGED <<procs, cache, elsewhere>>

\* len(c)
CallLen(c) ==
    /\ ret' = [Ret("len", "none") EXCEPT !.coll = c,
                                         !.value = <<__len__(colls[c])>>]
    /\ UNCHANGED <<procs, colls, cache, elsewhere>>

\* key in c, key a string
CallContains(c, key) ==
    /\ ret' = [Ret("contains", "none") EXCEPT
                   !.coll = c, !.key = key,
                   !.value = <<__contains__(colls[c], key)>>]
    /\ UNCHANGED <<procs, colls, cache, elsewhere>>

\* list(c)
CallIter(c) ==
    /\ ret' = [Ret("iter", "none") EXCEPT !.coll = c,
                                          !.value = __iter__(colls[c])]
    /\ UNCHANGED <<procs, colls, cache, elsewhere>>

\* c[key], key a string
CallGetItem(c, key) ==
    LET r == getitem_str(colls[c], key)
    IN  /\ ret' = [Ret("getitem", r.err) EXCEPT
                       !.coll = c, !.key = key, !.value = r.value]
        /\ UNCHANGED <<procs, colls, cache, elsewhere>>

\* CompiledProcesses.__new__ run by a thread, one step per statement that
\* touches the cache; threads are switched between any two of them.
\* Thread t calls CompiledProcesses(processes): cache = cls._cache;
\* processes = tuple(processes)
ThreadCall(t, processes) ==
    /\ threads[t].pc = "idle"
    /\ threads' = [threads EXCEPT ![t] =
                      [IdleThread EXCEPT !.pc = "lookup", !.processes = processes]]
    /\ UNCHANGED <<procs, colls, cache, ret, pm2, items, registry, streams>>

\* if processes in cache: self = cache[processes]
ThreadLookup(t) ==
    /\ threads[t].pc = "lookup"
    /\ threads' = [threads EXCEPT ![t] =
                      IF CacheKey(threads[t].processes) \in DOMAIN cache
                      THEN [@ EXCEPT !.pc = "done",
                                     !.self = cache[CacheKey(threads[t].processes)]]
                      ELSE [@ EXCEPT !.pc = "compile"]]
    /\ UNCHANGED <<procs, colls, cache, ret, pm2, items, registry, streams>>

\* else: self = object.__new__(cls); setfield(self, i.ID, i) for each
\* process; self._compile()
ThreadCompile(t) ==
    /\ threads[t].pc = "compile"
    /\ Free # {}
    /\ LET self == [NoColl EXCEPT !.cls = "CompiledProcesses",
                                  !.dct = SetFields(<<>>, threads[t].processes)]
           r    == _compile(self)
       IN  IF r.err = "none"
           THEN /\ colls' = [colls EXCEPT ![NewColl] = r.coll]
                /\ threads' = [threads EXCEPT ![t] =
                                  [@ EXCEPT !.pc = "insert", !.self = NewColl,
                                            !.fresh = TRUE]]
           ELSE /\ threads' = [threads EXCEPT ![t] =
                                  [@ EXCEPT !.pc = "done", !.err = r.err]]
                /\ UNCHANGED colls
    /\ UNCHANGED <<procs, cache, ret, pm2, items, registry, streams>>

\* cache[processes] = self
ThreadInsert(t) ==
    /\ threads[t].pc = "insert"
    /\ cache' = [k \in DOMAIN cache \cup {CacheKey(threads[t].processes)} |->
                    IF k = CacheKey(threads[t].processes) THEN threads[t].self
                    ELSE cache[k]]
    /\ threads' = [threads EXCEPT ![t] = [@ EXCEPT !.pc = "done"]]
    /\ UNCHANGED <<procs, colls, ret, pm2, items, registry, streams>>

\* return self: the caller has the object (or the exception)
ThreadReturn(t) ==
    /\ threads[t].pc = "done"
    /\ threads' = [threads EXCEPT ![t] = IdleThread]
    /\ ret' = [Ret("CompiledProcesses", threads[t].err) EXCEPT
                   !.coll = threads[t].self, !.arg = threads[t].processes]
    /\ UNCHANGED <<procs, colls, cache, pm2, items, registry, streams>>

\* the values given for Q_N_min and Q_P_min: 0.01, below the theoretical
\* minima of the tables (0.08008 and 0.2002); 0.08008; and 0.5, above them
\* and above the default Q_N_max and Q_P_max
QValues == {[n |-> 1, d |-> 100], [n |-> 1001, d |-> 12500], [n |-> 1, d |-> 2]}

\* the value given for the other parameters
YValues == {Num(2)}

\* the parameters set_parameters is called with: the two minima, a shared
\* parameter and a parameter of the stoichiometry only
SetNames == {"Q_N_min", "Q_P_min", "Y_CH_PHO", "Y_CH_ND_HET_ACE"}

\* the keyword arguments of one set_parameters call
Kwargs ==
    UNION {{f \in [S -> QValues \cup YValues] :
               \A k \in S : f[k] \in (IF k \in {"Q_N_min", "Q_P_min"}
                                      THEN QValues ELSE YValues)} :
           S \in {T \in SUBSET SetNames : Cardinality(T) \in 1..MaxKwargs}}

\* every parameter argument of PM2.__new__ at its default
Defaults ==
    [k \in Range(_stoichio_params) \cup (Range(_kinetic_params) \ {"cmps"}) |->
        [default |-> k]]

\* pm2 = PM2(Q_N_min=..., Q_P_min=..., path=...)
CallPM2(Q_N_min, Q_P_min, path) ==
    /\ pm2' = PM2__new__([Defaults EXCEPT !.Q_N_min = Q_N_min,
                                          !.Q_P_min = Q_P_min], path)
    /\ ret' = Ret("PM2", "none")
    /\ UNCHANGED <<procs, colls, cache, threads, items, registry, streams>>

\* pm2.set_parameters(**parameters)
CallSetParameters(parameters) ==
    /\ pm2.made
    /\ LET r == set_parameters(pm2, parameters)
       IN  /\ pm2' = r.pm2
           /\ ret' = Ret("set_parameters", r.err)
    /\ UNCHANGED <<procs, colls, cache, threads, items, registry, streams>>

\* the state vectors the rate function is given: the concentrations the
\* ratios are taken of
StateArrs ==
    [X_ALG : {Zero, One, Num(4)}, X_CH : {Zero, One}, X_LI : {One},
     X_N_ALG : {Zero, One}, X_P_ALG : {One}]

\* pm2.rate_function(state_arr): rhos_pm2(state_arr, self._params)
CallRateFunction(state_arr) ==
    /\ pm2.made
    /\ ret' = [Ret("rate_function", "none") EXCEPT
                   !.value = rhos_pm2,
                   !.locals = intermediates(state_arr, pm2._params)]
    /\ UNCHANGED <<procs, colls, cache, threads, pm2, items, registry, streams>>

\* the items on the heap
LiveItems == {i \in Items : items[i].cls # "none"}

\* the IDs given to a new item or to a copy
NewIDs == Range(ItemIDs) \cup {None}

\* item = ImpactItem(ID, source=source)
CallImpactItem(ID, source) ==
    /\ source = 0 \/ NewItem(items) # 0
    /\ LET r == ImpactItem__init__(items, ID, source)
       IN  /\ items' = r.items
           /\ ret' = [Ret("ImpactItem", r.err) EXCEPT !.coll = r.item]
    /\ UNCHANGED <<procs, colls, cache, threads, pm2, registry, streams>>

\* item = StreamImpactItem(ID, source=source, register=register)
CallStreamImpactItem(ID, source, register) ==
    /\ NewItem(items) # 0
    /\ LET r == StreamImpactItem__init__(items, registry, ID, source, register)
       IN  /\ items' = r.items
           /\ registry' = r.registry
           /\ ret' = [Ret("StreamImpactItem", r.err) EXCEPT !.coll = r.item]
    /\ UNCHANGED <<procs, colls, cache, threads, pm2, streams>>

\* new = self.copy(new_ID, set_as_source=..., register=...)
CallItemCopy(self, new_ID, set_as_source, register) ==
    /\ NewItem(items) # 0
    /\ LET r == copy(items, registry, self, new_ID, set_as_source, register)
       IN  /\ items' = r.items
           /\ registry' = r.registry
           /\ ret' = [Ret("copy", r.err) EXCEPT !.coll = r.item]
    /\ UNCHANGED <<procs, colls, cache, threads, pm2, streams>>

\* self.add_indicator(indicator, CF_value)
CallAddIndicator(self, indicator, CF_value) ==
    /\ LET r == add_indicator(items, self, indicator, CF_value)
       IN  /\ items' = r.items
           /\ ret' = Ret("add_indicator", r.err)
    /\ UNCHANGED <<procs, colls, cache, threads, pm2, registry, streams>>

\* self.register()
CallRegister(self) ==
    /\ LET r == ImpactItem_register(items, registry, self)
       IN  /\ items' = r.items
           /\ registry' = r.registry
           /\ ret' = Ret("register", r.err)
    /\ UNCHANGED <<procs, colls, cache, threads, pm2, streams>>

\* self.deregister()
CallDeregister(self) ==
    /\ LET r == deregister(items, registry, self)
       IN  /\ items' = r.items
           /\ registry' = r.registry
           /\ ret' = Ret("deregister", r.err)
    /\ UNCHANGED <<procs, colls, cache, threads, pm2, streams>>

\* ImpactItem.clear_registry()
CallClearRegistry ==
    /\ LET r == clear_registry(items, registry)
       IN  /\ items' = r.items
           /\ registry' = r.registry
           /\ ret' = Ret("clear_registry", r.err)
    /\ UNCHANGED <<procs, colls, cache, threads, pm2, streams>>

\* ImpactItem.get_all_items()
CallGetAllItems ==
    /\ LET r == get_all_items(items, registry)
       IN  ret' = [Ret("get_all_items", r.err) EXCEPT !.idx = r.value]
    /\ UNCHANGED <<procs, colls, cache, threads, pm2, items, registry, streams>>

\* what linked_stream is assigned
LinkArgs ==
    {[kind |-> "SanStream", s |-> s] : s \in Streams}
    \cup {[kind |-> "str", s |-> s] : s \in Streams \cup {0}}
    \cup {[kind |-> "None", s |-> 0], [kind |-> "other", s |-> 0]}

\* self.linked_stream = new_s, self a StreamImpactItem
CallSetLinkedStream(self, new_s) ==
    /\ items[self].cls = "StreamImpactItem"
    /\ LET r == linked_stream_setter(items, streams, self, new_s)
       IN  /\ items' = r.items
           /\ streams' = r.streams
           /\ ret' = [Ret("linked_stream", r.err) EXCEPT !.coll = self,
                                                         !.idx = <<new_s.s>>]
    /\ UNCHANGED <<procs, colls, cache, threads, pm2, registry>>

\* the lists of IDs indices is asked for
LookupLists == UNION {[1..k -> LookupIDs] : k \in 0..MaxTuple}

\* Process objects share no state: one is exercised at a time, the others
\* are as constructed
OthersConstructed(p) ==
    \A q \in ProcObjs \ {p} : procs[q] \in Constructed(q, TRUE)

NextProcess ==
    \/ \E p \in ProcObjs : OthersConstructed(p) /\ CallReverse(p)
    \/ \E p \in ProcObjs, ref_cmp \in CompIDs \cup {""} :
           OthersConstructed(p) /\ CallSetRefComponent(p, ref_cmp)
    \/ \E p \in ProcObjs : OthersConstructed(p) /\ CallCheckConservation(p)
    \/ \E p \in ProcObjs : \E terms \in ReactionTexts(p), kind \in Kinds(p, TRUE) :
           OthersConstructed(p) /\ CallProcess(p, terms, kind)

Next ==
    \/ \E t \in Tuples(0, MaxTuple) : CallProcesses(t)
    \/ \E t \in Tuples(1, MaxTuple) : CallCompiledProcesses(t)
    \/ \E c \in Live, x \in ProcObjs \cup {NotAProcess} : CallAppend(c, x)
    \/ \E c \in Live, o \in Live : CallExtendProcesses(c, o)
    \/ \E c \in Live, t \in Tuples(0, MaxTuple) : CallExtendIterable(c, t)
    \/ \E c \in Live, x \in ProcObjs : CallSetItem(c, procs[x].ID, x)
    \/ \E c \in Live : CallMyCompile(c)
    \/ \E c \in Live, ID \in LookupIDs : CallIndex(c, ID)
    \/ \E c \in Live, IDs \in LookupLists : CallIndices(c, IDs)

NextDerive ==
    \/ \E t \in Tuples(0, MaxTuple) : CallProcesses(t)
    \/ \E t \in Tuples(1, MaxTuple) : CallCompiledProcesses(t)
    \/ \E c \in Live : CallMyCompile(c)
    \/ \E c \in Live, IDs \in LookupLists : CallSubgroup(c, IDs)
    \/ \E c \in Live : CallCopy(c)

NextThreads ==
    \/ \E t \in Threads, processes \in Tuples(1, MaxTuple) : ThreadCall(t, processes)
    \/ \E t \in Threads : ThreadLookup(t)
    \/ \E t \in Threads : ThreadCompile(t)
    \/ \E t \in Threads : ThreadInsert(t)
    \/ \E t \in Threads : ThreadReturn(t)

NextPM2 ==
    \/ \E Q_N_min \in QValues, Q_P_min \in QValues, path \in Paths \cup {""} :
           CallPM2(Q_N_min, Q_P_min, path)
    \/ \E parameters \in Kwargs : CallSetParameters(parameters)
    \/ \E state_arr \in StateArrs : CallRateFunction(state_arr)

NextItems ==
    \/ \E ID \in Range(ItemIDs), source \in LiveItems \cup {0} :
           CallImpactItem(ID, source)
    \/ \E ID \in Range(ItemIDs), source \in LiveItems \cup {0}, register \in BOOLEAN :
           CallStreamImpactItem(ID, source, register)
    \/ \E self \in LiveItems, new_ID \in NewIDs, set_as_source \in BOOLEAN,
          register \in BOOLEAN :
           CallItemCopy(self, new_ID, set_as_source, register)
    \/ \E self \in LiveItems, indicator \in Indicators, CF_value \in CFValues :
           CallAddIndicator(self, indicator, CF_value)
    \/ \E self \in LiveItems : CallRegister(self)
    \/ \E self \in LiveItems : CallDeregister(self)
    \/ CallClearRegistry
    \/ CallGetAllItems

\* the strings a collection is asked for: process IDs and an attribute name
\* the compile step stores
ContainerKeys == LookupIDs \cup {"size"}

NextContainer ==
    \/ \E t \in Tuples(0, MaxTuple) : CallProcesses(t)
    \/ \E t \in Tuples(1, MaxTuple) : CallCompiledProcesses(t)
    \/ \E c \in Live, x \in ProcObjs \cup {NotAProcess} : CallAppend(c, x)
    \/ \E c \in Live, o \in Live : CallExtendProcesses(c, o)
    \/ \E c \in Live, t \in Tuples(0, MaxTuple) : CallExtendIterable(c, t)
    \/ \E c \in Live : CallMyCompile(c)
    \/ \E c \in Live : CallProcessesCopy(c)
    \/ \E c \in Live : CallLen(c)
    \/ \E c \in Live, key \in ContainerKeys : CallContains(c, key)
    \/ \E c \in Live : CallIter(c)
    \/ \E c \in Live, key \in ContainerKeys : CallGetItem(c, key)

NextStale ==
    \/ \E p \in ProcObjs : OthersConstructed(p) /\ CallReverse(p)
    \/ \E p \in ProcObjs, ref_cmp \in CompIDs :
           OthersConstructed(p) /\ CallSetRefComponent(p, ref_cmp)
    \/ \E t \in Tuples(1, 1) : CallCompiledProcesses(t)

NextCompileRaises ==
    \/ \E t \in Tuples(1, MaxTuple), raises \in BOOLEAN :
           CallCompiledProcessesNew(t, raises)
    \/ \E c \in Live : CallLen(c)

NextLinks ==
    \/ \E ID \in Range(ItemIDs), register \in BOOLEAN :
           CallStreamImpactItem(ID, 0, register)
    \/ \E self \in LiveItems, new_s \in LinkArgs : CallSetLinkedStream(self, new_s)

\* the collections, over processes that are not changed once collected
Spec == Init /\ [][Next]_vars

\* a Process under reverse() and reassignment of ref_component
SpecProcess == InitProcess /\ [][NextProcess]_vars

\* collections derived from collections: subgroup and copy
SpecDerive == Init /\ [][NextDerive]_vars

\* CompiledProcesses constructed by several threads at once
SpecThreads == Init /\ [][NextThreads]_vars

\* a PM2 instance: construction, set_parameters and the rate function
SpecPM2 == Init /\ [][NextPM2]_vars

\* impact items and their registry
SpecItems == Init /\ [][NextItems]_vars

\* a collection as a container: len, in, iteration, lookup, copy
SpecContainer == Init /\ [][NextContainer]_vars

\* CompiledProcesses constructed over processes that are changed in between
SpecStale == Init /\ [][NextStale]_vars

\* CompiledProcesses constructed with a compile step that may raise
SpecCompileRaises == Init /\ [][NextCompileRaises]_vars

\* stream impact items linked to streams
SpecLinks == Init /\ [][NextLinks]_vars


(***************************************************************************)
(* Claims about a single Process (checked under SpecProcess).               *)
(***************************************************************************)
\* position of component c in the registry of Process P
Col(P, c) == IndexOf(P.components, c)

\* coefficient times rate expression, as the coefficient of the rate symbol
NetRate(P, i) == Mul(P.stoichiometry[i], P.rate_equation.k)

\* C8 (as claimed): reassigning ref_component to a component taking part in
\* the reaction (finite nonzero coefficient) leaves, for every component, the
\* product of its coefficient and the rate expression as it was.
C8_RefReassignPreservesNetRate ==
    [][\A p \in ProcObjs : \A c \in Range(procs[p].components) :
         (/\ CallSetRefComponent(p, c)
          /\ Fin(procs[p].stoichiometry[Col(procs[p], c)])
          /\ ~IsZero(procs[p].stoichiometry[Col(procs[p], c)]))
         => \A i \in 1..Len(procs[p].components) :
                NetRate(procs'[p], i) = NetRate(procs[p], i)]_vars

\* C9 (as claimed): after ref_component is reassigned to any component ID of
\* the registry the Process was parsed against, the coefficient of the new
\* reference component has absolute value exactly 1.
C9_RefCoefficientIsUnit ==
    [][\A p \in ProcObjs : \A c \in Range(procs[p].components) :
         CallSetRefComponent(p, c)
         => /\ procs'[p].ref_component = c
            /\ AbsS(procs'[p].stoichiometry[Col(procs[p], c)]) = One]_vars

\* C10: one reverse() negates every coefficient and the rate expression and
\* changes nothing else of the Process; a second reverse() restores the
\* stoichiometry and the rate expression it started from.
C10_ReverseInvolution ==
    [][\A p \in ProcObjs :
         CallReverse(p)
         => LET P == procs[p]
                Q == procs'[p]
            IN  /\ Len(Q.stoichiometry) = Len(P.stoichiometry)
                /\ \A i \in 1..Len(P.stoichiometry) :
                       /\ Q.stoichiometry[i].n = -P.stoichiometry[i].n
                       /\ Q.stoichiometry[i].d = P.stoichiometry[i].d
                /\ Q.rate_equation.sym = P.rate_equation.sym
                /\ Q.rate_equation.k.n = -P.rate_equation.k.n
                /\ Q.rate_equation.k.d = P.rate_equation.k.d
                /\ Q.ID = P.ID
                /\ Q.ref_component = P.ref_component
                /\ Q.conserved_for = P.conserved_for
                /\ Q.parameters = P.parameters
                /\ Q.components = P.components
                /\ Q.kind = P.kind
                /\ reverse(Q).stoichiometry = P.stoichiometry
                /\ reverse(Q).rate_equation = P.rate_equation]_vars

\* C10 witness: a Process with a coefficient of magnitude MaxCoeff has just
\* been reversed once (one more reverse() gives a Process as constructed)
C10_Witness ==
    /\ ret.op = "reverse"
    /\ \E p \in ProcObjs :
          /\ procs[p] \notin Constructed(p, TRUE)
          /\ reverse(procs[p]) \in Constructed(p, TRUE)
          /\ procs[p].rate_equation.k = Num(-1)
          /\ \E i \in 1..Len(procs[p].stoichiometry) :
                 AbsS(procs[p].stoichiometry[i]) = Num(MaxCoeff)

\* the conserved quantities of P whose residual (conversion-factor row times
\* stoichiometry vector) is farther than atol from 0, each with its residual
Unconserved(P, atol) ==
    SelectSeq([m \in 1..Len(P.conserved_for) |->
                  [material |-> P.conserved_for[m],
                   value    |-> Dot(i_(P.conserved_for[m], P.components),
                                    P.stoichiometry)]],
              LAMBDA x : ~isclose(x.value, atol))

\* C11 (as claimed): check_conservation on a Process with numeric
\* stoichiometry returns normally when every conserved quantity has a residual
\* within tol of 0, and otherwise raises an error naming exactly the
\* quantities whose residual exceeds tol, each with its signed residual; the
\* Process is unchanged in both cases.
C11_CheckConservationReports ==
    [][\A p \in ProcObjs :
         (/\ ret'.op = "check_conservation"
          /\ procs[p].kind = "array"
          /\ CallCheckConservation(p))
         => /\ procs' = procs
            /\ Unconserved(procs[p], tol) = <<>> => ret'.err = "none"
            /\ Unconserved(procs[p], tol) # <<>>
                   => /\ ret'.err # "none"
                      /\ ret'.unconserved = Unconserved(procs[p], tol)]_vars


\* C12 (as claimed): no Process whose fully numeric stoichiometry violates one
\* of its conserved quantities beyond 1e-8 is returned by the constructor.
C12_ConstructorEnforcesConservation ==
    [][\A p \in ProcObjs : \A terms \in ReactionTexts(p) :
         (/\ ret'.op = "Process"
          /\ ret'.err = "none"
          /\ CallProcess(p, terms, "array"))
         => Unconserved(procs'[p], tol) = <<>>]_vars



(***************************************************************************)
(* Claims about Processes and CompiledProcesses (checked under Spec).       *)
(***************************************************************************)
IsCompiled(c) == colls[c].cls = "CompiledProcesses"

\* the Process objects a collection holds, in order
Members(obj) ==
    SelectSeq([i \in 1..Len(obj.dct) |-> obj.dct[i].proc],
              LAMBDA x : x # NotAProcess)

MemberIDs(obj) == {procs[Members(obj)[i]].ID : i \in 1..Len(Members(obj))}

\* the compile step ran to its end on this object: the processes compiled
\* are the processes held
CompileDone(c) == IsCompiled(c) /\ colls[c].tuple = Members(colls[c])

\* C1: constructing CompiledProcesses from a tuple constructed before returns
\* the object returned then and changes no object and no cache entry; from
\* any other tuple (another order, other processes) it returns an object
\* that did not exist before; no entry of the cache is ever replaced, and no
\* object is cached under two tuples.
C1_CacheIdentity ==
    [][/\ \A t \in Tuples(1, MaxTuple) :
            (/\ ret'.op = "CompiledProcesses"
             /\ ret'.err = "none"
             /\ ret'.arg = t
             /\ CallCompiledProcesses(t))
            => IF t \in DOMAIN cache
               THEN /\ ret'.coll = cache[t]
                    /\ colls' = colls
                    /\ cache' = cache
               ELSE /\ colls[ret'.coll].cls = "none"
                    /\ colls'[ret'.coll].cls = "CompiledProcesses"
                    /\ \A u \in DOMAIN cache : cache[u] # ret'.coll
                    /\ t \in DOMAIN cache'
                    /\ cache'[t] = ret'.coll
       /\ \A u \in DOMAIN cache : u \in DOMAIN cache' /\ cache'[u] = cache[u]
       /\ \A u, v \in DOMAIN cache' : cache'[u] = cache'[v] => u = v]_vars

\* C1 witness: a tuple and its reordering are both cached, under different
\* objects, and the last construction returned one of them from the cache
C1_Witness ==
    /\ ret.op = "CompiledProcesses"
    /\ \E t \in DOMAIN cache :
          /\ Len(t) = 2
          /\ t[1] # t[2]
          /\ <<t[2], t[1]>> \in DOMAIN cache
          /\ cache[<<t[2], t[1]>>] # cache[t]
          /\ ret.arg = t
          /\ ret.coll = cache[t]

\* C2: on a CompiledProcesses (constructed, or promoted by mycompile) every
\* append, extend and item assignment raises, and leaves every object and
\* the cache as they were.
C2_CompiledIsReadOnly ==
    [][\A c \in Live :
         IsCompiled(c) /\ ret'.coll = c
         /\ ret'.op \in {"append", "extend", "__setitem__"}
         => /\ \A x \in ProcObjs \cup {NotAProcess} :
                  CallAppend(c, x)
                  => ret'.err # "none" /\ colls' = colls /\ cache' = cache
            /\ \A o \in Live :
                  CallExtendProcesses(c, o)
                  => ret'.err # "none" /\ colls' = colls /\ cache' = cache
            /\ \A t \in Tuples(0, MaxTuple) :
                  CallExtendIterable(c, t)
                  => ret'.err # "none" /\ colls' = colls /\ cache' = cache
            /\ \A x \in ProcObjs :
                  CallSetItem(c, procs[x].ID, x)
                  => ret'.err # "none" /\ colls' = colls /\ cache' = cache]_vars

\* C2 witness: an extend was refused on a collection promoted by mycompile
\* (compiled, and not an object of the cache)
C2_Witness ==
    /\ ret.op = "extend"
    /\ ret.err = "TypeError"
    /\ CompileDone(ret.coll)
    /\ \A t \in DOMAIN cache : cache[t] # ret.coll

\* C3: in every CompiledProcesses the stoichiometry matrix has `size` rows,
\* each row has one column per component of the merged registry,
\* production_rates has one entry per merged component, and IDs has `size`
\* entries.
C3_MatrixShape ==
    \A c \in Live :
        IsCompiled(c)
        => LET obj == colls[c]
           IN  /\ Len(obj._stoichiometry) = obj.size
               /\ \A i \in 1..Len(obj._stoichiometry) :
                      Len(obj._stoichiometry[i]) = Len(obj._components)
               /\ Len(obj._production_rates) = Len(obj._components)
               /\ DOMAIN production_rates(obj) = Range(obj._components)
               /\ Cardinality(DOMAIN production_rates(obj)) = Len(obj._components)
               /\ Len(obj.IDs) = obj.size

\* C3 witness: a compiled collection of two processes over three merged
\* components
C3_Witness ==
    \E c \in Live :
        /\ CompileDone(c)
        /\ colls[c].size = 2
        /\ Len(colls[c]._components) = 3
        /\ Len(colls[c]._stoichiometry) = 2


\* where component ID cid is first seen going through the registries of the
\* given processes in order: <<process position, position in its registry>>
FirstSeen(members, cid) ==
    LET i == CHOOSE k \in 1..Len(members) :
                 /\ InSeq(procs[members[k]].components, cid)
                 /\ \A h \in 1..(k - 1) : ~InSeq(procs[members[h]].components, cid)
    IN  <<i, Col(procs[members[i]], cid)>>

Before(a, b) == a[1] < b[1] \/ (a[1] = b[1] /\ a[2] < b[2])

\* what a compile of the processes `members` must leave in object obj
CompiledFrom(obj, members) ==
    LET cmps == obj._components
        M    == obj._stoichiometry
    IN  /\ obj.tuple = members
        /\ Range(cmps) = UNION {Range(procs[members[i]].components) :
                                   i \in 1..Len(members)}
        /\ \A a, b \in 1..Len(cmps) :
               a < b => /\ cmps[a] # cmps[b]
                        /\ Before(FirstSeen(members, cmps[a]),
                                  FirstSeen(members, cmps[b]))
        /\ Len(M) = Len(members)
        /\ \A i \in 1..Len(members) : \A j \in 1..Len(cmps) :
               LET P == procs[members[i]]
               IN  M[i][j] =
                       IF /\ InSeq(P.components, cmps[j])
                          /\ ~IsZero(P.stoichiometry[Col(P, cmps[j])])
                       THEN P.stoichiometry[Col(P, cmps[j])]
                       ELSE Zero

DistinctIDs(t) ==
    \A i, j \in 1..Len(t) : procs[t[i]].ID = procs[t[j]].ID => i = j

\* C4: a compile (by the constructor on a tuple not cached, or by mycompile)
\* leaves a merged registry that is the union by ID of the members'
\* registries in first-seen order and a matrix whose entry (p, c) is the
\* coefficient of c in p's sparse stoichiometry, and 0 where c is not in it;
\* the members are the processes of the tuple when their IDs differ.
C4_CompileMergesRegistries ==
    [][/\ \A t \in Tuples(1, MaxTuple) :
            (/\ ret'.op = "CompiledProcesses"
             /\ ret'.err = "none"
             /\ ret'.arg = t
             /\ t \notin DOMAIN cache
             /\ CallCompiledProcesses(t))
            => /\ CompiledFrom(colls'[ret'.coll],
                               Members([dct |-> SetFields(<<>>, t)]))
               /\ DistinctIDs(t) => colls'[ret'.coll].tuple = t
       /\ \A c \in Live :
            (/\ ret'.op = "mycompile"
             /\ ret'.err = "none"
             /\ ret'.coll = c
             /\ CallMyCompile(c))
            => CompiledFrom(colls'[c], Members(colls[c]))]_vars

\* C4 witness: p1 over {A, B} and p2 over {B, C} were compiled together:
\* columns A, B, C, with zeros at (p1, C) and (p2, A) and nowhere else
C4_Witness ==
    /\ ret.op = "CompiledProcesses"
    /\ ret.err = "none"
    /\ ret.arg = <<1, 2>>
    /\ LET obj == colls[ret.coll]
       IN  /\ obj.IDs = <<"p1", "p2">>
           /\ obj._components = <<"A", "B", "C">>
           /\ obj._stoichiometry[1][3] = Zero
           /\ obj._stoichiometry[2][1] = Zero
           /\ ~IsZero(obj._stoichiometry[1][1])
           /\ ~IsZero(obj._stoichiometry[1][2])
           /\ ~IsZero(obj._stoichiometry[2][2])
           /\ ~IsZero(obj._stoichiometry[2][3])

\* the sum over the set S of process positions of entry (p, j) times the
\* coefficient of rate symbol sym in the rate equation of p
RECURSIVE WeightedSum(_, _, _, _)
WeightedSum(obj, S, j, sym) ==
    IF S = {} THEN Zero
    ELSE LET p == CHOOSE q \in S : TRUE
         IN  Add(IF obj._rate_equations[p].sym = sym
                 THEN Mul(obj._stoichiometry[p][j], obj._rate_equations[p].k)
                 ELSE Zero,
                 WeightedSum(obj, S \ {p}, j, sym))

\* C5: in every CompiledProcesses, the production rate stored under the ID
\* of merged component c is the sum over the member processes p of matrix
\* entry (p, c) times the rate equation of p.
C5_ProductionRatesAreWeightedSums ==
    \A c \in Live :
        IsCompiled(c)
        => LET obj == colls[c]
           IN  \A j \in 1..Len(obj._components) :
                   /\ obj._components[j] \in DOMAIN production_rates(obj)
                   /\ \A sym \in Range(RateSyms) :
                          production_rates(obj)[obj._components[j]][sym] =
                              IF \E p \in 1..obj.size :
                                     Mul(obj._stoichiometry[p][j],
                                         obj._rate_equations[p].k) = NaN
                              THEN NaN
                              ELSE WeightedSum(obj, 1..obj.size, j, sym)

\* C5 witness: a component produced by one member at a coefficient other
\* than 1 and by another whose rate equation has a factor other than 1
C5_Witness ==
    \E c \in Live :
        /\ CompileDone(c)
        /\ \E j \in 1..Len(colls[c]._components) :
              LET pr == production_rates(colls[c])[colls[c]._components[j]]
              IN  /\ pr["r1"] = Num(MaxCoeff)
                  /\ pr["r2"] = Num(MaxCoeff)

C7_AppendRejectsDuplicateID ==
    [][\A c \in Live :
         (colls[c].cls = "Processes" /\ ret'.coll = c /\ ret'.op = "append")
         => \A x \in ProcObjs \cup {NotAProcess} :
                CallAppend(c, x)
                => IF x = NotAProcess
                   THEN ret'.err = "TypeError" /\ colls' = colls
                   ELSE IF HasKey(colls[c].dct, procs[x].ID)
                   THEN /\ ret'.err = "ValueError"
                        /\ colls' = colls
                        /\ DictGet(colls'[c].dct, procs[x].ID)
                               = DictGet(colls[c].dct, procs[x].ID)
                   ELSE /\ ret'.err = "none"
                        /\ colls'[c].dct =
                               Append(colls[c].dct,
                                      [key |-> procs[x].ID, proc |-> x])
                        /\ Members(colls'[c]) = Append(Members(colls[c]), x)
                        /\ \A d \in Colls \ {c} : colls'[d] = colls[d]]_vars

\* C7 witness: an append was refused for an ID the collection holds, and the
\* collection holds two processes
C7_Witness ==
    /\ ret.op = "append"
    /\ ret.err = "ValueError"
    /\ colls[ret.coll].cls = "Processes"
    /\ Len(Members(colls[ret.coll])) = 2


(***************************************************************************)
(* Claims about subgroup and copy (checked under SpecDerive).               *)
(***************************************************************************)
\* C13 (as claimed): subgroup(IDs) on a mutable Processes, IDs naming
\* members, returns a new Processes holding exactly the named processes in
\* the given order and leaves the original unchanged.
C13_SubgroupOfProcesses ==
    [][\A c \in Live : \A IDs \in LookupLists :
         (/\ ret'.op = "subgroup"
          /\ colls[c].cls = "Processes"
          /\ IDs # <<>>
          /\ \A i \in 1..Len(IDs) : HasKey(colls[c].dct, IDs[i])
          /\ CallSubgroup(c, IDs))
         => /\ ret'.err = "none"
            /\ ret'.coll \in Free
            /\ colls'[ret'.coll].cls = "Processes"
            /\ Members(colls'[ret'.coll]) =
                   [i \in 1..Len(IDs) |-> DictGet(colls[c].dct, IDs[i])]
            /\ colls'[c] = colls[c]]_vars

\* C14 (as claimed): subgroup(IDs) on a CompiledProcesses, IDs naming
\* distinct members, returns a compiled collection whose IDs are the
\* requested IDs in the given order, whose size is their count and whose
\* columns are the merged registry of those processes only; the original is
\* unchanged.
C14_SubgroupOfCompiled ==
    [][\A c \in Live : \A IDs \in LookupLists :
         (/\ ret'.op = "subgroup"
          /\ CompileDone(c)
          /\ IDs # <<>>
          /\ \A i \in 1..Len(IDs) : IDs[i] \in MemberIDs(colls[c])
          /\ \A i, j \in 1..Len(IDs) : IDs[i] = IDs[j] => i = j
          /\ CallSubgroup(c, IDs))
         => /\ ret'.err = "none"
            /\ ret'.coll \in Colls
            /\ LET new  == colls'[ret'.coll]
                   named == [i \in 1..Len(IDs) |-> DictGet(colls[c].dct, IDs[i])]
               IN  /\ new.cls = "CompiledProcesses"
                   /\ new.IDs = IDs
                   /\ new.size = Len(IDs)
                   /\ new._components = Components(AllComponents(named))
            /\ colls'[c] = colls[c]]_vars

\* C15 (as claimed): copy() on a CompiledProcesses returns a compiled
\* collection that is another object with the same member processes, the
\* same IDs in the same order and the same size; the original and the cache
\* are unchanged.
C15_CopyOfCompiled ==
    [][\A c \in Live :
         (/\ ret'.op = "copy"
          /\ CompileDone(c)
          /\ CallCopy(c))
         => /\ ret'.err = "none"
            /\ ret'.coll \in Colls \ {c}
            /\ LET new == colls'[ret'.coll]
               IN  /\ new.cls = "CompiledProcesses"
                   /\ Members(new) = Members(colls[c])
                   /\ new.IDs = colls[c].IDs
                   /\ new.size = colls[c].size
            /\ colls'[c] = colls[c]
            /\ cache' = cache]_vars


(***************************************************************************)
(* Claims about concurrent construction (checked under SpecThreads).        *)
(***************************************************************************)
\* C16 (as claimed): two constructions of CompiledProcesses over the same
\* ordered tuple that run at the same time give both callers the same
\* instance, and the tuple is compiled at most once.
C16_ConcurrentConstructionsShareInstance ==
    \A a, b \in Threads :
        (/\ a # b
         /\ threads[a].pc = "done" /\ threads[b].pc = "done"
         /\ threads[a].processes = threads[b].processes
         /\ threads[a].err = "none" /\ threads[b].err = "none")
        => /\ threads[a].self = threads[b].self
           /\ ~(threads[a].fresh /\ threads[b].fresh)

(***************************************************************************)
(* Claims about PM2 (checked under SpecPM2).                                *)
(***************************************************************************)
\* the rate of each process of PM2: the kinetic function of its kind, with
\* the substrate it takes up or the pool it stores into, under the light,
\* acetate or glucose response (or ATP yield) of its growth mode
RateOf ==
    [
     photoadaptation |-> [fn |-> "photoadaptation", arg |-> "", by |-> ""],
     ammonium_uptake |-> [fn |-> "nutrient_uptake", arg |-> "S_NH", by |-> ""],
     phosphorus_uptake |-> [fn |-> "nutrient_uptake", arg |-> "S_P", by |-> ""],
     growth_pho |-> [fn |-> "growth", arg |-> "", by |-> "f_I"],
     carbohydrate_storage_pho |-> [fn |-> "storage", arg |-> "f_CH", by |-> "f_I"],
     lipid_storage_pho |-> [fn |-> "storage", arg |-> "f_LI", by |-> "f_I"],
     carbohydrate_growth_pho |-> [fn |-> "growth_on_carbohydrate", arg |-> "", by |-> "f_I"],
     lipid_growth_pho |-> [fn |-> "growth_on_lipid", arg |-> "", by |-> "f_I"],
     carbohydrate_maintenance_pho |-> [fn |-> "carbohydrate_maintenance", arg |-> "", by |-> "Y_ATP_PHO"],
     lipid_maintenance_pho |-> [fn |-> "lipid_maintenance", arg |-> "", by |-> "Y_ATP_PHO"],
     endogenous_respiration_pho |-> [fn |-> "endogenous_respiration", arg |-> "", by |-> "Y_ATP_PHO"],
     growth_ace |-> [fn |-> "growth", arg |-> "", by |-> "acetate_response"],
     carbohydrate_storage_ace |-> [fn |-> "storage", arg |-> "f_CH", by |-> "acetate_response"],
     lipid_storage_ace |-> [fn |-> "storage", arg |-> "f_LI", by |-> "acetate_response"],
     carbohydrate_growth_ace |-> [fn |-> "growth_on_carbohydrate", arg |-> "", by |-> "acetate_response"],
     lipid_growth_ace |-> [fn |-> "growth_on_lipid", arg |-> "", by |-> "acetate_response"],
     carbohydrate_maintenance_ace |-> [fn |-> "carbohydrate_maintenance", arg |-> "", by |-> "Y_ATP_HET_ACE"],
     lipid_maintenance_ace |-> [fn |-> "lipid_maintenance", arg |-> "", by |-> "Y_ATP_HET_ACE"],
     endogenous_respiration_ace |-> [fn |-> "endogenous_respiration", arg |-> "", by |-> "Y_ATP_HET_ACE"],
     growth_glu |-> [fn |-> "growth", arg |-> "", by |-> "glucose_response"],
     carbohydrate_storage_glu |-> [fn |-> "storage", arg |-> "f_CH", by |-> "glucose_response"],
     lipid_storage_glu |-> [fn |-> "storage", arg |-> "f_LI", by |-> "glucose_response"],
     carbohydrate_growth_glu |-> [fn |-> "growth_on_carbohydrate", arg |-> "", by |-> "glucose_response"],
     lipid_growth_glu |-> [fn |-> "growth_on_lipid", arg |-> "", by |-> "glucose_response"],
     carbohydrate_maintenance_glu |-> [fn |-> "carbohydrate_maintenance", arg |-> "", by |-> "Y_ATP_HET_GLU"],
     lipid_maintenance_glu |-> [fn |-> "lipid_maintenance", arg |-> "", by |-> "Y_ATP_HET_GLU"],
     endogenous_respiration_glu |-> [fn |-> "endogenous_respiration", arg |-> "", by |-> "Y_ATP_HET_GLU"],
     nitrate_uptake_pho |-> [fn |-> "nutrient_uptake", arg |-> "S_NO", by |-> ""],
     nitrate_uptake_ace |-> [fn |-> "nutrient_uptake", arg |-> "S_NO", by |-> ""],
     nitrate_uptake_glu |-> [fn |-> "nutrient_uptake", arg |-> "S_NO", by |-> ""]]

\* C17: the vector the bound rate function of a PM2 instance returns has
\* exactly one entry per compiled process, and entry i is the rate of the
\* process at position i of IDs, whichever table the instance was built from.
C17_RateVectorFollowsIDs ==
    (pm2.made /\ ret.op = "rate_function") =>
        /\ Len(ret.value) = Len(pm2.IDs)
        /\ \A i \in 1..Len(pm2.IDs) : ret.value[i] = RateOf[pm2.IDs[i]]

\* C18: a set_parameters call given a Q_N_min below Th_Q_N_min, or a Q_P_min
\* below Th_Q_P_min, raises, and the Q_N_min and Q_P_min of the rate
\* function's parameter table are the ones it held before the call.
C18_RejectedMinimumIsNotStored ==
    [][\A parameters \in Kwargs :
          (/\ ret'.op = "set_parameters"
           /\ CallSetParameters(parameters)
           /\ \/ /\ "Q_N_min" \in DOMAIN parameters
                 /\ Less(parameters.Q_N_min, Th_Q_N_min(pm2))
              \/ /\ "Q_P_min" \in DOMAIN parameters
                 /\ Less(parameters.Q_P_min, Th_Q_P_min(pm2)))
          => /\ ret'.err = "ValueError"
             /\ pm2'._params.Q_N_min = pm2._params.Q_N_min
             /\ pm2'._params.Q_P_min = pm2._params.Q_P_min]_vars

\* a call was rejected on an instance whose Q_N_min had been raised to 0.5 and
\* whose Q_P_min is at its theoretical minimum
C18_Witness ==
    /\ pm2.made
    /\ ret.op = "set_parameters"
    /\ ret.err = "ValueError"
    /\ pm2._params.Q_N_min = [n |-> 1, d |-> 2]
    /\ pm2._params.Q_P_min = Th_Q_P_min(pm2)

(***************************************************************************)
(* Claims about impact items (checked under SpecItems).                     *)
(***************************************************************************)
\* the CFs read through item i after indicator was given CF_value through
\* item w
CFsAfterWrite(heap, w, indicator, CF_value, i) ==
    CFs(add_indicator(heap, w, indicator, CF_value).items, i)

\* the copy `new` of `self` reads the CFs `self` reads, and a CF written
\* through either is read through both
SharesCFs(heap, self, new) ==
    /\ CFs(heap, new).err = "none"
    /\ CFs(heap, new) = CFs(heap, self)
    /\ \A w \in {self, new}, indicator \in Indicators, CF_value \in CFValues :
          /\ add_indicator(heap, w, indicator, CF_value).err = "none"
          /\ \A i \in {self, new} :
                /\ CFsAfterWrite(heap, w, indicator, CF_value, i).err = "none"
                /\ indicator \in
                       DOMAIN CFsAfterWrite(heap, w, indicator, CF_value, i).value
                /\ CFsAfterWrite(heap, w, indicator, CF_value, i).value[indicator]
                       = CF_value

\* a CF written through `self` does not change what the copy `new` reads
KeepsOwnCFs(heap, self, new) ==
    /\ CFs(heap, new).err = "none"
    /\ \A indicator \in Indicators, CF_value \in CFValues :
          CFsAfterWrite(heap, self, indicator, CF_value, new) = CFs(heap, new)

\* C19: a copy of an ImpactItem made with set_as_source=True reads and writes
\* the characterization factors of the item it was copied from, in both
\* directions, also when that item is itself linked to a source; a copy made
\* with set_as_source=False is not affected by later changes to the original.
C19_LinkedCopySharesCFs ==
    [][\A self \in Items, new_ID \in NewIDs, set_as_source \in BOOLEAN,
          reg_flag \in BOOLEAN :
          (/\ ret'.op = "copy"
           /\ self \in LiveItems
           /\ items[self].cls = "ImpactItem"
           /\ CallItemCopy(self, new_ID, set_as_source, reg_flag))
          => /\ ret'.err = "none"
             /\ set_as_source => SharesCFs(items', self, ret'.coll)
             /\ ~set_as_source => KeepsOwnCFs(items', self, ret'.coll)]_vars

\* the items in the registry
Registered(reg) == {reg[k] : k \in DOMAIN reg}

\* seq lists the items of S, each once, in increasing order of ID
SortedListing(heap, seq, S) ==
    /\ Len(seq) = Cardinality(S)
    /\ Range(seq) = S
    /\ \A i, j \in 1..Len(seq) :
          i < j => IDBefore(heap[seq[i]]._ID, heap[seq[j]]._ID)

\* C20: deregister() removes exactly that item from the registry, register()
\* adds exactly that item, clear_registry() leaves the registry empty, and
\* get_all_items(), after any sequence of these operations and of copies that
\* register, returns the items in the registry, each once, sorted by ID.
C20_RegistryOperations ==
    [][/\ \A self \in Items :
             (ret'.op = "deregister" /\ self \in LiveItems /\ CallDeregister(self))
             => Registered(registry') = Registered(registry) \ {self}
       /\ \A self \in Items :
             (ret'.op = "register" /\ self \in LiveItems /\ CallRegister(self))
             => Registered(registry') = Registered(registry) \cup {self}
       /\ (ret'.op = "clear_registry" /\ CallClearRegistry)
             => Registered(registry') = {}
       /\ (ret'.op = "get_all_items" /\ CallGetAllItems)
             => /\ ret'.err = "none"
                /\ SortedListing(items, ret'.idx, Registered(registry))]_vars

(***************************************************************************)
(* Claims about the ratios of rhos_pm2 (checked under SpecPM2).             *)
(***************************************************************************)
\* x <= y
AtMost(x, y) == ~Less(y, x)

\* x clamped to [minimum, maximum]
Clamped(x, minimum, maximum) ==
    IF Less(x, minimum) THEN minimum
    ELSE IF Less(maximum, x) THEN maximum
    ELSE x

\* C21: ratio(numerator, denominator, minimum, maximum) with denominator > 0
\* and minimum <= maximum is numerator / denominator clamped to
\* [minimum, maximum]; and in every evaluation of rhos_pm2 f_CH and f_LI lie
\* in [0, f_max] and Q_N and Q_P in [Q_min, Q_max].
C21_RatiosAreClamped ==
    [][\A state_arr \in StateArrs :
          (ret'.op = "rate_function" /\ CallRateFunction(state_arr))
          => \A v \in DOMAIN ret'.locals :
                LET c == RatioCalls(state_arr, pm2._params)[v]
                IN  /\ (Less(Zero, c.denominator) /\ AtMost(c.minimum, c.maximum))
                       => ret'.locals[v] =
                              Clamped(Div(c.numerator, c.denominator),
                                      c.minimum, c.maximum)
                    /\ AtMost(c.minimum, ret'.locals[v])
                    /\ AtMost(ret'.locals[v], c.maximum)]_vars


(***************************************************************************)
(* Claims about collections as containers (checked under SpecContainer).    *)
(***************************************************************************)
\* C22: for a CompiledProcesses, len() is its size, iteration yields its
\* member processes in the order of IDs, a string is contained exactly when
\* it is the ID of a member process, and the lookup of a string that is not
\* the ID of a member process fails
C22_CompiledContainerProtocol ==
    [][\A c \in Colls :
          (/\ ret'.op \in {"len", "contains", "iter", "getitem"}
           /\ ret'.coll = c
           /\ colls[c].cls = "CompiledProcesses"
           /\ CompileDone(c))
          => /\ ret'.op = "len" => ret'.value = <<colls[c].size>>
             /\ ret'.op = "iter"
                    => /\ ret'.value = colls[c].tuple
                       /\ [i \in 1..Len(ret'.value) |-> procs[ret'.value[i]].ID]
                              = colls[c].IDs
             /\ ret'.op = "contains"
                    => (ret'.value = <<TRUE>>) = (ret'.key \in MemberIDs(colls[c]))
             /\ (ret'.op = "getitem" /\ ret'.key \notin MemberIDs(colls[c]))
                    => ret'.err # "none"]_vars

\* the entry of __dict__ at position i is a Process stored under its own ID
OwnEntry(obj, i) ==
    /\ obj.dct[i].proc # NotAProcess
    /\ procs[obj.dct[i].proc].ID = obj.dct[i].key

\* C23: whatever was constructed, appended, extended (with a Processes, a
\* CompiledProcesses or an iterable of Process) and copied, every entry of a
\* mutable Processes is a Process stored under its own ID, so len() is the
\* number of member processes and iteration yields Process objects only
C23_MutableHoldsOnlyProcesses ==
    \A c \in Live :
        colls[c].cls = "Processes"
        => /\ \A i \in 1..Len(colls[c].dct) : OwnEntry(colls[c], i)
           /\ __len__(colls[c]) = Len(Members(colls[c]))
           /\ __iter__(colls[c]) = Members(colls[c])

\* some process of the sequence has an ID the collection already holds
Clashes(obj, processes) ==
    \E i \in 1..Len(processes) : HasKey(obj.dct, procs[processes[i]].ID)

\* the call failed and every ID of the collection maps to the object it
\* mapped to before
FailedKeepingMembers(c) ==
    /\ ret'.err # "none"
    /\ \A i \in 1..Len(colls[c].dct) :
           /\ HasKey(colls'[c].dct, colls[c].dct[i].key)
           /\ DictGet(colls'[c].dct, colls[c].dct[i].key) = colls[c].dct[i].proc

\* C24: extend on a mutable Processes never replaces a member: when a process
\* to be added has an ID the collection already holds, extend fails as
\* append does, for a collection argument and for an iterable of Process,
\* and the ID still maps to the original Process
C24_ExtendNeverReplaces ==
    [][/\ \A c \in Colls, o \in Colls :
             (/\ ret'.op = "extend"
              /\ colls[c].cls = "Processes"
              /\ colls[o].cls # "none"
              /\ Clashes(colls[c], Members(colls[o]))
              /\ CallExtendProcesses(c, o))
             => FailedKeepingMembers(c)
       /\ \A c \in Colls, t \in Tuples(0, MaxTuple) :
             (/\ ret'.op = "extend"
              /\ colls[c].cls = "Processes"
              /\ Clashes(colls[c], t)
              /\ CallExtendIterable(c, t))
             => FailedKeepingMembers(c)]_vars

(***************************************************************************)
(* Claims about the cache and changed processes (checked under SpecStale).  *)
(***************************************************************************)
\* row i of the matrix and entry i of the rate equations of obj are those
\* of process p as it is now
RowIsCurrent(obj, i, p) ==
    /\ obj._stoichiometry[i] = StoichRow(procs'[p], obj._components)
    /\ obj._rate_equations[i] = procs'[p].rate_equation

\* C25: whenever the CompiledProcesses constructor returns an object for a
\* tuple T, row i of its stoichiometry matrix and entry i of its rate
\* equations are the current stoichiometry and rate equation of T[i], also
\* when a member was changed by reverse() or by a ref_component assignment
\* between two constructions over T
C25_ConstructorReturnsCurrentRows ==
    [][\A t \in Tuples(1, 1) :
          (/\ ret'.op = "CompiledProcesses"
           /\ ret'.err = "none"
           /\ CallCompiledProcesses(t)
           /\ colls'[ret'.coll].tuple = t)
          => \A i \in 1..Len(t) : RowIsCurrent(colls'[ret'.coll], i, t[i])]_vars

(***************************************************************************)
(* Claims about a failing compile step (checked under SpecCompileRaises).   *)
(***************************************************************************)
\* every attribute the compile step stores is there
FullyCompiled(obj) ==
    /\ obj.cls = "CompiledProcesses"
    /\ \A i \in 1..Len(CompiledKeys) : HasKey(obj.dct, CompiledKeys[i])

\* C26: when the construction of a CompiledProcesses for a tuple that is not
\* in the cache fails in the compile step, no cache entry is added for the
\* tuple, so that a later construction over it compiles again; the cache
\* only ever maps a tuple to a fully compiled instance
C26_FailedCompileIsNotCached ==
    [][/\ \A t \in Tuples(1, MaxTuple) :
             (/\ ret'.op = "CompiledProcesses"
              /\ ret'.err # "none"
              /\ CacheKey(t) \notin DOMAIN cache
              /\ CallCompiledProcessesNew(t, TRUE))
             => /\ cache' = cache
                /\ LET again == CompiledProcesses__new__(cache', t, FALSE, 0)
                   IN  again.obj # NoColl /\ FullyCompiled(again.obj)
       /\ \A k \in DOMAIN cache' : FullyCompiled(colls'[cache'[k]])]_vars

\* a construction failed in the compile step and its tuple is not cached
C26_Witness ==
    /\ ret.op = "CompiledProcesses"
    /\ ret.err = "CompileError"
    /\ CacheKey(ret.arg) \notin DOMAIN cache
    /\ cache # <<>>

(***************************************************************************)
(* Claims about the parameter tables of PM2 (checked under SpecPM2).        *)
(***************************************************************************)
\* the stoichiometric and the kinetic table agree on every shared parameter
TablesAgree(self) ==
    \A k \in Range(_shared_params) : self._parameters[k] = self._params[k]

\* C27: for every name of PM2._shared_params the stoichiometric table and
\* the kinetic table hold the same value after construction and after every
\* set_parameters call, returning or raising; a set_parameters call that
\* raises changes neither table
C27_SharedParametersAgree ==
    [][/\ pm2'.made => TablesAgree(pm2')
       /\ \A parameters \in Kwargs :
             (/\ ret'.op = "set_parameters"
              /\ ret'.err # "none"
              /\ CallSetParameters(parameters))
             => /\ pm2'._parameters = pm2._parameters
                /\ pm2'._params = pm2._params]_vars

\* C28: with the theoretical minima fixed, after the construction of a PM2
\* with any Q_N_min and Q_P_min and after any sequence of set_parameters
\* calls, the Q_N_min of the kinetic table is at least Th_Q_N_min and its
\* Q_P_min at least Th_Q_P_min
C28_StoredMinimaAboveTheoretical ==
    pm2.made
    => /\ ~ Less(pm2._params.Q_N_min, Th_Q_N_min(pm2))
       /\ ~ Less(pm2._params.Q_P_min, Th_Q_P_min(pm2))

\* set_parameters returned after it stored a Q_N_min other than the one of
\* the construction
C28_Witness ==
    /\ pm2.made
    /\ ret.op = "set_parameters"
    /\ ret.err = "none"
    /\ pm2._params.Q_N_min = [n |-> 1, d |-> 2]
    /\ pm2._params.Q_P_min = Th_Q_P_min(pm2)

(***************************************************************************)
(* Claims about the registered flag (checked under SpecItems).              *)
(***************************************************************************)
\* item.registered reads True
FlagSet(heap, item) ==
    "_registered" \in heap[item].set /\ heap[item]._registered

\* the registry maps the ID of the item to that very item
InRegistry(heap, reg, item) ==
    heap[item]._ID \in DOMAIN reg /\ reg[heap[item]._ID] = item

\* C29: for every ImpactItem, after any sequence of copy, register,
\* deregister and clear_registry, the registered flag is true exactly when
\* the registry maps the ID of the item to that very item
C29_FlagTellsRegistration ==
    \A item \in LiveItems :
        FlagSet(items, item) <=> InRegistry(items, registry, item)

(***************************************************************************)
(* Claims about linked streams (checked under SpecLinks).                   *)
(***************************************************************************)
\* C30: the link between a StreamImpactItem and a stream is mutual after any
\* sequence of linked_stream assignments (relinking to another stream,
\* linking a stream that has another item, unlinking with None): the
\* linked_stream of an item is s exactly when the impact item of s is that
\* item, so no two items name one stream and no assignment that raises
\* leaves a one-sided link
C30_LinkIsMutual ==
    \A item \in LiveItems, s \in Streams :
        (items[item]._linked_stream = s) <=> (streams[s]._impact_item = item)
====
